---- MODULE Spec2Model ----
(***************************************************************************)
(* A model of the zk-cryptography workspace: multilinear polynomials in    *)
(* evaluation form, the sparse univariate polynomial used for round        *)
(* polynomials, the Fiat-Shamir transcript, the basic and multi-composed   *)
(* sumcheck, the layered circuit, multilinear KZG and the GKR protocols.   *)
(*                                                                         *)
(* Field elements are the integers 0..P-1 with arithmetic modulo P.        *)
(* Vectors are sequences; the entry the source calls v[k] is v[k+1] here.  *)
(* A call that panics returns the record Panic.                            *)
(***************************************************************************)
EXTENDS Integers, Sequences, FiniteSets, TLC

VARIABLES ml, oracle, sc, mcs, kzg, gkr, sgkr, collapse, circ, fs, dense, merlin

vars == <<ml, oracle, sc, mcs, kzg, gkr, sgkr, collapse, circ, fs, dense, merlin>>

(***************************************************************************)
(* Bounds of the model.                                                    *)
(***************************************************************************)
\* table entries and other input scalars are drawn from 0..MaxVal
MaxVal == 1
\* multilinear tables handed to the polynomial operations have at most 2^MaxVars entries
MaxVars == 3
\* challenges the hash may return are drawn from 0..MaxChal
MaxChal == 2
\* operations applied one after the other to a multilinear value
MaxOps == 2
\* right-hand operands of the binary multilinear operations have at most MaxRhsVars variables
MaxRhsVars == 1
\* variables added by add_to_front / add_to_back
MaxLift == 1
\* the largest number of variables of a polynomial handed to the sumcheck
MaxScVars == 2
\* the composed sumcheck instance: polynomials in the list, factors of one
\* polynomial, variables of one polynomial, table entries of the whole list,
\* and how far the claimed sum may lie from the true one
MaxPolys == 2
MaxFactors == 2
MaxMcsVars == 2
MaxCells == 8
MaxSumOffset == 1
\* the KZG instance: variables of the committed polynomial, and the largest
\* coordinate of a setup point or an opening point
MaxKzgVars == 3
MaxPoint == 2
\* the GKR instance: layers of the circuit, and how many of the hashes of a
\* call are drawn from 0..MaxChal (the later ones are the digest of the state)
MaxLayers == 2
MaxGkrFresh == 2
\* variables of the setup point of the succinct GKR instance
MaxSetupVars == 2
\* collapse sessions: the largest number of variables
MaxCollapseVars == 3
\* circuit sessions: the largest number of gates of a free single layer, of
\* inputs it reads, and of layers of a circuit of the canonical shape
MaxCircGates == 2
MaxCircInputBits == 2
MaxCircLayers == 2
\* transcript sessions: the largest number of calls on each transcript and
\* the largest number of bytes of one commit
MaxFsCalls == 3
MaxFsBytes == 1
\* dense univariate sessions: the longest coefficient vector and the largest
\* coefficient
MaxDenseLen == 3
MaxDenseCoeff == 2
\* the largest table size handed to pick_pairs_with_random_index on its own
MaxPairsLen == 8
\* the largest shift applied to one entry of a verifier's table
MaxTableShift == 1
\* a Merlin transcript: calls made on one transcript after new(), bytes of an
\* appended message, and the most challenges asked of one challenge_n call
MaxMerlinCalls == 2
MaxMerlinBytes == 1
MaxMerlinN == 2

(***************************************************************************)
(* The prime field (Fq of the test suites, modulus 17).                    *)
(***************************************************************************)
P == 17

F == 0..(P - 1)

Vals == 0..MaxVal

Chal == 0..MaxChal

FAdd(a, b) == (a + b) % P

FSub(a, b) == (a - b + P) % P

FMul(a, b) == (a * b) % P

FNeg(a) == (P - a) % P

RECURSIVE FPow(_, _)
FPow(a, e) == IF e = 0 THEN 1 ELSE FMul(a, FPow(a, e - 1))

\* inverse(): None for zero, otherwise the multiplicative inverse
FInv(a) == FPow(a, P - 2)

RECURSIVE Pow2(_)
Pow2(n) == IF n = 0 THEN 1 ELSE 2 * Pow2(n - 1)

RECURSIVE Log2Floor(_)
Log2Floor(n) == IF n <= 1 THEN 0 ELSE 1 + Log2Floor(n \div 2)

RECURSIVE SumSeq(_)
SumSeq(s) == IF s = <<>> THEN 0 ELSE FAdd(Head(s), SumSeq(Tail(s)))

RECURSIVE Repeat(_, _)
Repeat(x, n) == IF n = 0 THEN <<>> ELSE <<x>> \o Repeat(x, n - 1)

RECURSIVE SeqsOfLen(_, _)
SeqsOfLen(S, n) ==
    IF n = 0 THEN {<<>>}
    ELSE {<<x>> \o t : x \in S, t \in SeqsOfLen(S, n - 1)}

\* a vector built element by element, stored as a vector (.collect())
Collect(elements) == elements \o <<>>

Panic == [panic |-> TRUE]

IsPanic(x) == "panic" \in DOMAIN x

(***************************************************************************)
(* Multilinear (polynomial/src/multilinear/evaluation_form.rs)             *)
(***************************************************************************)
\* Multilinear::new: n_vars = floor(log2(len)); asserts 1 << n_vars = len
MultilinearNew(evaluations) ==
    LET n_vars == Log2Floor(Len(evaluations))
    IN  IF Pow2(n_vars) # Len(evaluations) THEN Panic
        ELSE [n_vars |-> n_vars, evaluations |-> evaluations]

\* one pass of the outer loop with every round starting at index 0
PairsRoundFromZero(num_of_evaluations, iters, result_len) ==
    LET half == (num_of_evaluations \div iters) \div 2
    IN  Collect([y \in 1..half |-> <<y - 1, half + (y - 1)>>])

\* one pass of the outer loop: the pairs of one round, offset by result.len() * 2
PairsRound(num_of_evaluations, iters, result_len) ==
    LET half == (num_of_evaluations \div iters) \div 2
    IN  Collect([y \in 1..half |-> <<(y - 1) + result_len * 2, half + (y - 1) + result_len * 2>>])

RECURSIVE PickLoop(_, _, _, _)
PickLoop(num_of_evaluations, iters, it, result) ==
    IF it = iters THEN result
    ELSE PickLoop(num_of_evaluations, iters, it + 1,
                  result \o PairsRound(num_of_evaluations, iters, Len(result)))

\* the guard of pick_pairs_with_random_index: the two assert! lines
PickGuard(num_of_evaluations, variable_index) ==
    /\ num_of_evaluations % 2 = 0
    /\ variable_index < num_of_evaluations \div 2

\* the pairs of variable 0 whatever variable is asked for
pick_pairs_of_first_variable(num_of_evaluations, variable_index) ==
    IF ~PickGuard(num_of_evaluations, variable_index) THEN Panic
    ELSE [pairs |-> PickLoop(num_of_evaluations, 1, 0, <<>>)]

pick_pairs_with_random_index(num_of_evaluations, variable_index) ==
    IF ~PickGuard(num_of_evaluations, variable_index) THEN Panic
    ELSE [pairs |-> PickLoop(num_of_evaluations, Pow2(variable_index), 0, <<>>)]

\* the straight line taken the other way round, r.y1 + (1-r).y2
partial_evaluation_y1_y2(self, eval_point, variable_index) ==
    LET picked == pick_pairs_with_random_index(Len(self.evaluations), variable_index)
    IN  IF IsPanic(picked) THEN Panic
        ELSE IF self.n_vars = 0 THEN Panic
        ELSE [n_vars |-> self.n_vars - 1,
              evaluations |->
                Collect([k \in 1..Len(picked.pairs) |->
                    FAdd(FMul(eval_point, self.evaluations[picked.pairs[k][1] + 1]),
                         FMul(FSub(1, eval_point), self.evaluations[picked.pairs[k][2] + 1]))])]

\* r.y2 + (1-r).y1 for every pair (i, j); n_vars decreases by one
partial_evaluation(self, eval_point, variable_index) ==
    LET picked == pick_pairs_with_random_index(Len(self.evaluations), variable_index)
    IN  IF IsPanic(picked) THEN Panic
        ELSE IF self.n_vars = 0 THEN Panic
        ELSE [n_vars |-> self.n_vars - 1,
              evaluations |->
                Collect([k \in 1..Len(picked.pairs) |->
                    FAdd(FMul(eval_point, self.evaluations[picked.pairs[k][2] + 1]),
                         FMul(FSub(1, eval_point), self.evaluations[picked.pairs[k][1] + 1]))])]

RECURSIVE PartialEvaluationsLoop(_, _, _, _)
PartialEvaluationsLoop(evaluation, points, variable_indices, i) ==
    IF IsPanic(evaluation) THEN Panic
    ELSE IF i > Len(points) THEN evaluation
    ELSE PartialEvaluationsLoop(partial_evaluation(evaluation, points[i], variable_indices[i]),
                                points, variable_indices, i + 1)

partial_evaluations(self, points, variable_indices) ==
    IF Len(points) # Len(variable_indices) THEN Panic
    ELSE PartialEvaluationsLoop(self, points, variable_indices, 1)

\* full evaluation: asserts the number of points, then collapses variable 0 each time;
\* the result is [value |-> eval_result.evaluations[0]]
evaluation(self, evaluation_points) ==
    IF IsPanic(self) THEN Panic
    ELSE IF Len(evaluation_points) # self.n_vars THEN Panic
    ELSE LET eval_result == PartialEvaluationsLoop(self, evaluation_points,
                                                   Repeat(0, Len(evaluation_points)), 1)
         IN  IF IsPanic(eval_result) THEN Panic
             ELSE IF Len(eval_result.evaluations) = 0 THEN Panic
             ELSE [value |-> eval_result.evaluations[1]]

\* the sums laid out with the right operand varying slower
add_distinct_rhs_slower(self, rhs) ==
    LET repeat_sequence == Len(self.evaluations)
    IN  IF IsPanic(self) \/ IsPanic(rhs) THEN Panic
        ELSE MultilinearNew(Collect(
                 [k \in 1..(Len(rhs.evaluations) * repeat_sequence) |->
                    FAdd(self.evaluations[((k - 1) % repeat_sequence) + 1],
                         rhs.evaluations[((k - 1) \div repeat_sequence) + 1])]))

add_distinct(self, rhs) ==
    LET repeat_sequence == Len(rhs.evaluations)
    IN  IF IsPanic(self) \/ IsPanic(rhs) THEN Panic
        ELSE MultilinearNew(Collect(
                 [k \in 1..(Len(self.evaluations) * repeat_sequence) |->
                    FAdd(self.evaluations[((k - 1) \div repeat_sequence) + 1],
                         rhs.evaluations[((k - 1) % repeat_sequence) + 1])]))

mul_distinct(self, rhs) ==
    LET repeat_sequence == Len(rhs.evaluations)
    IN  IF IsPanic(self) \/ IsPanic(rhs) THEN Panic
        ELSE MultilinearNew(Collect(
                 [k \in 1..(Len(self.evaluations) * repeat_sequence) |->
                    FMul(self.evaluations[((k - 1) \div repeat_sequence) + 1],
                         rhs.evaluations[((k - 1) % repeat_sequence) + 1])]))

\* the byte string of a table is the concatenation of fixed-width encodings:
\* it determines and is determined by the sequence of field elements
to_bytes(self) == self.evaluations

additive_identity(num_vars) == MultilinearNew(Repeat(0, Pow2(num_vars)))

\* a prover message that sums the low half twice
split_low_half_twice(self) ==
    LET half == Len(self.evaluations) \div 2
        lo == SumSeq(SubSeq(self.evaluations, 1, half))
    IN  [n_vars |-> 1, evaluations |-> <<lo, lo>>]

split_poly_into_two_and_sum_each_part(self) ==
    LET mid_point == Len(self.evaluations) \div 2
    IN  MultilinearNew(<<SumSeq(SubSeq(self.evaluations, 1, mid_point)),
                         SumSeq(SubSeq(self.evaluations, mid_point + 1, Len(self.evaluations)))>>)

sum_over_the_boolean_hypercube(self) == SumSeq(self.evaluations)

RECURSIVE AddToFrontLoop(_, _, _)
AddToFrontLoop(evaluations, count, res) ==
    IF count = 0 THEN res
    ELSE AddToFrontLoop(evaluations, count - 1, res \o evaluations \o evaluations)

\* for _ in 0..(1 << variable_length): the table is appended twice
add_to_front(self, variable_length) ==
    MultilinearNew(AddToFrontLoop(self.evaluations, Pow2(variable_length), <<>>))

add_to_back(self, variable_length) ==
    LET input_len == Len(self.evaluations)
        output_len == input_len * Pow2(variable_length)
        repeat_count == output_len \div input_len
    IN  MultilinearNew(Collect([k \in 1..(input_len * repeat_count) |->
                            self.evaluations[((k - 1) \div repeat_count) + 1]]))

duplicate_evaluation(value) == MultilinearNew(value \o value)

\* impl Add: indexes rhs by the positions of lhs; keeps the n_vars of lhs
MlAdd(self, rhs) ==
    IF IsPanic(self) \/ IsPanic(rhs) THEN Panic
    ELSE IF Len(rhs.evaluations) < Len(self.evaluations) THEN Panic
    ELSE [n_vars |-> self.n_vars,
          evaluations |-> Collect([k \in 1..Len(self.evaluations) |->
                              FAdd(self.evaluations[k], rhs.evaluations[k])])]

MlSub(self, rhs) ==
    IF IsPanic(self) \/ IsPanic(rhs) THEN Panic
    ELSE IF Len(rhs.evaluations) < Len(self.evaluations) THEN Panic
    ELSE [n_vars |-> self.n_vars,
          evaluations |-> Collect([k \in 1..Len(self.evaluations) |->
                              FSub(self.evaluations[k], rhs.evaluations[k])])]

\* impl Mul<F>
MlScale(self, rhs) ==
    IF IsPanic(self) THEN Panic
    ELSE [n_vars |-> self.n_vars,
          evaluations |-> Collect([k \in 1..Len(self.evaluations) |->
                              FMul(self.evaluations[k], rhs)])]

(***************************************************************************)
(* FiatShamirTranscript (transcripts/fiat-shamir/src/fiat_shamir.rs)       *)
(*                                                                         *)
(* The hasher state is the sequence of field encodings absorbed since the  *)
(* last reset.  Sha256 is a fixed function nobody can predict: `oracle'    *)
(* holds the digests it has returned so far (as field elements, the        *)
(* from_be_bytes_mod_order image), and a state hashed for the first time   *)
(* gets a value the caller did not choose.  An environment                 *)
(*   env.oracle   the digests known                                        *)
(*   env.fresh    the values the next first-time hashes will return        *)
(*   env.starved  a first-time hash found env.fresh empty                  *)
(* is threaded through every call that squeezes a challenge.               *)
(***************************************************************************)
TranscriptNew == <<>>

commit(transcript, new_data) == transcript \o new_data

Env(orc, fresh, budget) ==
    [oracle |-> orc, fresh |-> fresh, budget |-> budget, starved |-> FALSE]

\* the digest of a state that is not enumerated: one fixed function of the
\* bytes absorbed, reduced into the field
RECURSIVE Sha256(_, _)
Sha256(transcript, acc) ==
    IF transcript = <<>> THEN acc
    ELSE Sha256(Tail(transcript), (acc * 3 + Head(transcript) + 1) % P)

\* hasher.finalize_reset(): the digest of the absorbed state.  The first
\* env.budget states a call hashes for the first time get every value of Chal
\* in turn (env.fresh); the states after them get Sha256
Digest(env, transcript) ==
    IF transcript \in DOMAIN env.oracle
      THEN [value |-> env.oracle[transcript], env |-> env]
    ELSE IF env.budget = 0 \/ env.fresh = <<>>
      THEN LET digest == Sha256(transcript, 1)
           IN  [value |-> digest,
                env |-> [env EXCEPT !.oracle = (transcript :> digest) @@ env.oracle,
                                    !.starved = @ \/ env.budget # 0]]
    ELSE [value |-> Head(env.fresh),
          env |-> [env EXCEPT
                     !.oracle = (transcript :> Head(env.fresh)) @@ env.oracle,
                     !.fresh = Tail(env.fresh),
                     !.budget = @ - 1]]

\* a challenge that resets the hasher and absorbs nothing
challenge_without_absorb(env, transcript) ==
    LET d == Digest(env, transcript)
    IN  [value |-> d.value, transcript |-> <<>>, env |-> d.env]

\* challenge(): finalize_reset, then absorb the response
challenge(env, transcript) ==
    LET d == Digest(env, transcript)
    IN  [value |-> d.value, transcript |-> <<d.value>>, env |-> d.env]

\* evaluate_challenge_into_field(): the response reduced into the field (a
\* digest is held as its field image)
evaluate_challenge_into_field(env, transcript) == challenge(env, transcript)

RECURSIVE evaluate_n_challenge_into_field(_, _, _)
evaluate_n_challenge_into_field(env, transcript, n) ==
    IF n = 0 THEN [values |-> <<>>, transcript |-> transcript, env |-> env]
    ELSE LET c == evaluate_challenge_into_field(env, transcript)
             rest == evaluate_n_challenge_into_field(c.env, c.transcript, n - 1)
         IN  [values |-> <<c.value>> \o rest.values, transcript |-> rest.transcript,
              env |-> rest.env]

\* every way a call can end: it is run with the digests handed out so far, and
\* each time it hashes one enumerated state more than that, with every value
\* of the next digest
RECURSIVE Outcomes(_, _, _, _)
Outcomes(Run(_), orc, fresh, budget) ==
    LET run == Run(Env(orc, fresh, budget))
    IN  IF run.env.starved
          THEN UNION {Outcomes(Run, orc, Append(fresh, digest), budget) : digest \in Chal}
        ELSE {run}

(***************************************************************************)
(* Sumcheck (sumcheck/src/sumcheck.rs)                                     *)
(***************************************************************************)
convert_field_to_byte(element) == <<element>>

SumcheckNew(poly) == [poly |-> poly, sum |-> 0]

poly_sum(self) == [self EXCEPT !.sum = SumSeq(self.poly.evaluations)]

\* the loop body of prove, rounds i .. n_vars
RECURSIVE SumcheckProveLoop(_, _, _, _, _, _)
SumcheckProveLoop(rounds, current_poly, transcript, env, uni_polys, challenges) ==
    IF rounds = 0
      THEN [uni_polys |-> uni_polys, challenges |-> challenges, env |-> env]
    ELSE LET uni_poly == split_poly_into_two_and_sum_each_part(current_poly)
             c == evaluate_challenge_into_field(env, commit(transcript, to_bytes(uni_poly)))
         IN  SumcheckProveLoop(rounds - 1, partial_evaluation(current_poly, c.value, 0),
                               c.transcript, c.env, Append(uni_polys, uni_poly),
                               Append(challenges, c.value))

SumcheckProve(self, env) ==
    LET transcript == commit(TranscriptNew, convert_field_to_byte(self.sum))
        run == SumcheckProveLoop(self.poly.n_vars, self.poly, transcript, env, <<>>, <<>>)
    IN  [proof |-> [poly |-> self.poly, sum |-> self.sum, univariate_poly |-> run.uni_polys],
         challenges |-> run.challenges,
         env |-> run.env]

\* the loop of verify from round i on; "false" on a failed round check,
\* "panic" when univariate_poly[i] does not exist
RECURSIVE SumcheckVerifyLoop(_, _, _, _, _, _)
SumcheckVerifyLoop(proof, i, claimed_sum, transcript, env, challenges) ==
    IF i > proof.poly.n_vars
      THEN LET final == evaluation(proof.poly, challenges)
           IN  [verdict |-> IF IsPanic(final) THEN "panic"
                            ELSE IF final.value = claimed_sum THEN "true" ELSE "false",
                env |-> env]
    ELSE IF i > Len(proof.univariate_poly) THEN [verdict |-> "panic", env |-> env]
    ELSE LET uni_poly == proof.univariate_poly[i]
             at0 == evaluation(uni_poly, <<0>>)
             at1 == evaluation(uni_poly, <<1>>)
         IN  IF IsPanic(at0) \/ IsPanic(at1) THEN [verdict |-> "panic", env |-> env]
             ELSE IF FAdd(at0.value, at1.value) # claimed_sum
               THEN [verdict |-> "false", env |-> env]
             ELSE LET c == evaluate_challenge_into_field(env,
                                commit(transcript, to_bytes(uni_poly)))
                  IN  SumcheckVerifyLoop(proof, i + 1, evaluation(uni_poly, <<c.value>>).value,
                                         c.transcript, c.env, Append(challenges, c.value))

SumcheckVerify(self, proof, env) ==
    SumcheckVerifyLoop(proof, 1, proof.sum,
                       commit(TranscriptNew, convert_field_to_byte(proof.sum)), env, <<>>)

(***************************************************************************)
(* UnivariatePolynomial, the sparse form the composed sumcheck sends       *)
(* (polynomial/src/univariate/univariate.rs, polynomial/src/utils.rs)      *)
(***************************************************************************)
UnivariateZero == [monomial |-> <<>>]

RECURSIVE UnivariateToBytesFrom(_, _)
UnivariateToBytesFrom(monomial, k) ==
    IF k > Len(monomial) THEN <<>>
    ELSE <<monomial[k].coeff, monomial[k].pow>> \o UnivariateToBytesFrom(monomial, k + 1)

UnivariateToBytes(self) == UnivariateToBytesFrom(self.monomial, 1)

RECURSIVE EvaluateFrom(_, _, _)
EvaluateFrom(monomial, k, point) ==
    IF k > Len(monomial) THEN 0
    ELSE FAdd(FMul(monomial[k].coeff, FPow(point, monomial[k].pow)),
              EvaluateFrom(monomial, k + 1, point))

evaluate(self, point) == EvaluateFrom(self.monomial, 1, point)

\* one pass of the outer loop of lagrange_basis: l_i times (x - x_j)
LagrangeStep(l_i, x_j) ==
    Collect([k \in 1..(Len(l_i) + 1) |->
        FAdd(IF k <= Len(l_i) THEN FNeg(FMul(l_i[k], x_j)) ELSE 0,
             IF k >= 2 THEN l_i[k - 1] ELSE 0)])

RECURSIVE LagrangeLoop(_, _, _, _)
LagrangeLoop(points, i, j, l_i) ==
    IF j > Len(points) THEN l_i
    ELSE LagrangeLoop(points, i, j + 1,
                      IF i # j THEN LagrangeStep(l_i, points[j][1]) ELSE l_i)

RECURSIVE LagrangeDenom(_, _, _)
LagrangeDenom(points, i, j) ==
    IF j > Len(points) THEN 1
    ELSE FMul(IF j # i THEN FSub(points[i][1], points[j][1]) ELSE 1,
              LagrangeDenom(points, i, j + 1))

\* denom.inverse().unwrap() aborts on a zero denominator
lagrange_basis(points, i) ==
    LET l_i == LagrangeLoop(points, i, 1, <<1>>)
        denom == LagrangeDenom(points, i, 1)
        inverse == FInv(denom)
    IN  IF denom = 0 THEN Panic
        ELSE [coeffs |-> Collect([k \in 1..Len(l_i) |-> FMul(l_i[k], inverse)])]

\* result[k] after the loop over the points from i on; l holds the bases
RECURSIVE InterpolationSum(_, _, _, _)
InterpolationSum(points, l, i, k) ==
    IF i > Len(points) THEN 0
    ELSE FAdd(FMul(l[i].coeffs[k], points[i][2]), InterpolationSum(points, l, i + 1, k))

RECURSIVE FilterNonZero(_, _)
FilterNonZero(result, k) ==
    IF k > Len(result) THEN <<>>
    ELSE (IF result[k] # 0 THEN <<[coeff |-> result[k], pow |-> k - 1]>> ELSE <<>>)
         \o FilterNonZero(result, k + 1)

interpolation(points) ==
    LET l == Collect([i \in 1..Len(points) |-> lagrange_basis(points, i)])
    IN  IF \E i \in 1..Len(points) : IsPanic(l[i]) THEN Panic
        ELSE LET result == Collect([k \in 1..Len(points) |-> InterpolationSum(points, l, 1, k)])
             IN  [monomial |-> FilterNonZero(result, 1)]

\* impl Add: merge of the two monomial lists by power
RECURSIVE UnivariateAddMerge(_, _)
UnivariateAddMerge(lhs, rhs) ==
    IF lhs = <<>> THEN rhs
    ELSE IF rhs = <<>> THEN lhs
    ELSE LET l == Head(lhs)
             r == Head(rhs)
         IN  IF l.pow = r.pow
               THEN <<[coeff |-> FAdd(l.coeff, r.coeff), pow |-> l.pow]>>
                    \o UnivariateAddMerge(Tail(lhs), Tail(rhs))
             ELSE IF l.pow < r.pow THEN <<l>> \o UnivariateAddMerge(Tail(lhs), rhs)
             ELSE <<r>> \o UnivariateAddMerge(lhs, Tail(rhs))

UnivariateAdd(self, rhs) == [monomial |-> UnivariateAddMerge(self.monomial, rhs.monomial)]

(***************************************************************************)
(* ComposedMultilinear: a product of multilinears over the same variables  *)
(* (polynomial/src/composed/composed_multilinear.rs)                       *)
(***************************************************************************)
ComposedNew(polys) ==
    IF polys = <<>> THEN Panic
    ELSE IF \E k \in 1..Len(polys) : IsPanic(polys[k]) THEN Panic
    ELSE IF \E k \in 1..Len(polys) : polys[k].n_vars # polys[1].n_vars THEN Panic
    ELSE [polys |-> polys]

ComposedNVars(self) == self.polys[1].n_vars

RECURSIVE ComposedToBytesFrom(_, _)
ComposedToBytesFrom(polys, k) ==
    IF k > Len(polys) THEN <<>>
    ELSE to_bytes(polys[k]) \o ComposedToBytesFrom(polys, k + 1)

ComposedToBytes(self) == ComposedToBytesFrom(self.polys, 1)

RECURSIVE ComposedEvaluationFrom(_, _, _)
ComposedEvaluationFrom(polys, k, points) ==
    IF k > Len(polys) THEN 1
    ELSE FMul(evaluation(polys[k], points).value, ComposedEvaluationFrom(polys, k + 1, points))

ComposedEvaluation(self, points) ==
    IF \E k \in 1..Len(self.polys) : IsPanic(evaluation(self.polys[k], points)) THEN Panic
    ELSE [value |-> ComposedEvaluationFrom(self.polys, 1, points)]

ComposedPartialEvaluation(self, evaluation_point, variable_index) ==
    LET new_polys == Collect([k \in 1..Len(self.polys) |->
                        partial_evaluation(self.polys[k], evaluation_point, variable_index)])
    IN  IF \E k \in 1..Len(new_polys) : IsPanic(new_polys[k]) THEN Panic
        ELSE [polys |-> new_polys]

max_degree(self) == Len(self.polys)

RECURSIVE ProductAt(_, _, _)
ProductAt(polys, k, i) ==
    IF k > Len(polys) THEN 1 ELSE FMul(polys[k].evaluations[i], ProductAt(polys, k + 1, i))

element_wise_product(self) ==
    Collect([i \in 1..Len(self.polys[1].evaluations) |-> ProductAt(self.polys, 1, i)])

(***************************************************************************)
(* MultiComposedSumcheckProver / MultiComposedSumcheckVerifier             *)
(* (sumcheck/src/composed/multi_composed_sumcheck.rs)                      *)
(***************************************************************************)
RECURSIVE composed_poly_to_bytes_from(_, _)
composed_poly_to_bytes_from(poly, k) ==
    IF k > Len(poly) THEN <<>>
    ELSE ComposedToBytes(poly[k]) \o composed_poly_to_bytes_from(poly, k + 1)

composed_poly_to_bytes(poly) == composed_poly_to_bytes_from(poly, 1)

RECURSIVE calculate_poly_sum_from(_, _)
calculate_poly_sum_from(poly, k) ==
    IF k > Len(poly) THEN 0
    ELSE FAdd(SumSeq(element_wise_product(poly[k])), calculate_poly_sum_from(poly, k + 1))

calculate_poly_sum(poly) == calculate_poly_sum_from(poly, 1)

\* samples paired with the points 1, 2, ... instead of 0, 1, ...
uni_poly_format_from_one(round_poly) ==
    Collect([i \in 1..Len(round_poly) |-> <<i % P, round_poly[i]>>])

convert_round_poly_to_uni_poly_format(round_poly) ==
    Collect([i \in 1..Len(round_poly) |-> <<(i - 1) % P, round_poly[i]>>])

\* the samples of one composed polynomial's round polynomial at 0..=max_degree
round_i_poly_vec(p) ==
    Collect([i \in 1..(max_degree(p) + 1) |->
        SumSeq(element_wise_product(ComposedPartialEvaluation(p, (i - 1) % P, 0)))])

\* round_i_poly of one composed polynomial, or the abort of its computation
round_i_poly(p) ==
    IF IsPanic(ComposedPartialEvaluation(p, 0, 0)) THEN Panic
    ELSE interpolation(convert_round_poly_to_uni_poly_format(round_i_poly_vec(p)))

\* round_poly = zero() + round_i_poly of the first k polynomials, in order
RECURSIVE RoundPolyFrom(_, _)
RoundPolyFrom(round_i_polys, k) ==
    IF k = 0 THEN UnivariateZero
    ELSE UnivariateAdd(RoundPolyFrom(round_i_polys, k - 1), round_i_polys[k])

RECURSIVE ProveInternalLoop(_, _, _, _, _, _)
ProveInternalLoop(rounds, current_poly, transcript, env, round_polys, challenges) ==
    IF rounds = 0
      THEN [round_polys |-> round_polys, challenges |-> challenges, env |-> env]
    ELSE LET round_i_polys == Collect([k \in 1..Len(current_poly) |-> round_i_poly(current_poly[k])])
             round_poly == RoundPolyFrom(round_i_polys, Len(current_poly))
             c == evaluate_challenge_into_field(env,
                      commit(transcript, UnivariateToBytes(round_poly)))
             new_poly == Collect([k \in 1..Len(current_poly) |->
                            ComposedPartialEvaluation(current_poly[k], c.value, 0)])
         IN  IF \E k \in 1..Len(current_poly) : IsPanic(round_i_polys[k])
               THEN [panic |-> TRUE, env |-> env]
             ELSE ProveInternalLoop(rounds - 1, new_poly, c.transcript, c.env,
                                    Append(round_polys, round_poly),
                                    Append(challenges, c.value))

prove_internal(poly, sum, transcript, env) ==
    IF poly = <<>> \/ (\E k \in 1..Len(poly) : IsPanic(poly[k]))
      THEN [panic |-> TRUE, env |-> env]
    ELSE LET run == ProveInternalLoop(ComposedNVars(poly[1]), poly,
                                      commit(transcript, convert_field_to_byte(sum)),
                                      env, <<>>, <<>>)
         IN  IF IsPanic(run) THEN run
             ELSE [proof |-> [round_polys |-> run.round_polys, sum |-> sum],
                   challenges |-> run.challenges, env |-> run.env]

MultiComposedProve(poly, sum, env) ==
    prove_internal(poly, sum, commit(TranscriptNew, composed_poly_to_bytes(poly)), env)

prove_partial(poly, sum, env) == prove_internal(poly, sum, TranscriptNew, env)

RECURSIVE VerifyInternalLoop(_, _, _, _, _, _)
VerifyInternalLoop(proof, i, claimed_sum, transcript, env, challenges) ==
    IF i > Len(proof.round_polys)
      THEN [ok |-> TRUE, sum |-> claimed_sum, challenges |-> challenges, env |-> env]
    ELSE LET round_poly == proof.round_polys[i]
             c == evaluate_challenge_into_field(env,
                      commit(transcript, UnivariateToBytes(round_poly)))
             eval_p0_p1 == FAdd(evaluate(round_poly, 0), evaluate(round_poly, 1))
         IN  IF claimed_sum # eval_p0_p1
               THEN [ok |-> FALSE, sum |-> claimed_sum, challenges |-> challenges,
                     env |-> c.env]
             ELSE VerifyInternalLoop(proof, i + 1, evaluate(round_poly, c.value),
                                     c.transcript, c.env, Append(challenges, c.value))

\* a verifier that takes the first round polynomial's own g(0) + g(1) as the claim
verify_internal_unchecked_sum(proof, transcript, env) ==
    VerifyInternalLoop(proof, 1,
                       IF proof.round_polys = <<>> THEN proof.sum
                       ELSE FAdd(evaluate(proof.round_polys[1], 0),
                                 evaluate(proof.round_polys[1], 1)),
                       commit(transcript, convert_field_to_byte(proof.sum)), env, <<>>)

verify_internal(proof, transcript, env) ==
    VerifyInternalLoop(proof, 1, proof.sum,
                       commit(transcript, convert_field_to_byte(proof.sum)), env, <<>>)

verify_partial(proof, env) == verify_internal(proof, TranscriptNew, env)

RECURSIVE OracleSumFrom(_, _, _)
OracleSumFrom(poly, k, challenges) ==
    IF k > Len(poly) THEN 0
    ELSE FAdd(ComposedEvaluation(poly[k], challenges).value,
              OracleSumFrom(poly, k + 1, challenges))

\* Ok(true) | Ok(false) | Err | panic
MultiComposedVerify(poly, proof, env) ==
    LET sub_claim == verify_internal(proof,
                         commit(TranscriptNew, composed_poly_to_bytes(poly)), env)
    IN  [env |-> sub_claim.env,
         verdict |->
           IF ~sub_claim.ok THEN "Err"
           ELSE IF \E k \in 1..Len(poly) :
                      IsPanic(ComposedEvaluation(poly[k], sub_claim.challenges))
             THEN "panic"
           ELSE IF OracleSumFrom(poly, 1, sub_claim.challenges) = sub_claim.sum
             THEN "Ok(true)"
           ELSE "Ok(false)"]

(***************************************************************************)
(* Multilinear KZG (multilinear-kzg/src/kzg.rs, trusted_setup.rs,          *)
(* kzg-pcs/src/utils.rs)                                                   *)
(*                                                                         *)
(* G1, G2 and the target group are cyclic of the order of the scalar       *)
(* field; an element is written as its exponent of the generator, so       *)
(* g.mul_bigint(a) is a, the group sum is the field sum, and e(a, b) is    *)
(* the product a.b.                                                        *)
(***************************************************************************)
\* vertex i of the hypercube, most significant bit first
boolean_hypercube(n) ==
    Collect([i \in 1..Pow2(n) |->
        Collect([j \in 1..n |-> ((i - 1) \div Pow2(n - j)) % 2])])

RECURSIVE CheckFold(_, _, _)
CheckFold(bh, value, k) ==
    IF k > Len(bh) THEN 1
    ELSE FMul(IF bh[k] = 0 THEN FSub(1, value[k]) ELSE value[k], CheckFold(bh, value, k + 1))

check_for_zero_and_one(bh, value) == CheckFold(bh, value, 1)

generate_array_of_points(bh_cube, eval_points) ==
    Collect([k \in 1..Len(bh_cube) |-> check_for_zero_and_one(bh_cube[k], eval_points)])

generate_powers_of_tau_in_g1(eval_points) ==
    generate_array_of_points(boolean_hypercube(Len(eval_points)), eval_points)

generate_powers_of_tau_in_g2(eval_points) == eval_points

setup(eval_points) ==
    [powers_of_tau_in_g1 |-> generate_powers_of_tau_in_g1(eval_points),
     powers_of_tau_in_g2 |-> generate_powers_of_tau_in_g2(eval_points)]

RECURSIVE CommitmentSum(_, _, _)
CommitmentSum(evaluations, powers, k) ==
    IF k > Len(evaluations) THEN 0
    ELSE FAdd(FMul(evaluations[k], powers[k]), CommitmentSum(evaluations, powers, k + 1))

\* assert_eq! on the two lengths, then the sum of tau_g1[k] * evaluations[k]
commitment(poly, powers_of_tau_in_g1) ==
    IF Len(powers_of_tau_in_g1) # Len(poly.evaluations) THEN Panic
    ELSE [g1 |-> CommitmentSum(poly.evaluations, powers_of_tau_in_g1, 1)]

get_poly_remainder(poly, evaluation_point) == partial_evaluation(poly, evaluation_point, 0)

\* a quotient taken the wrong way round, f(0, ..) - f(1, ..)
get_poly_quotient_reversed(poly) ==
    LET f_1 == partial_evaluation(poly, 1, 0)
        f_0 == partial_evaluation(poly, 0, 0)
    IN  IF IsPanic(f_1) \/ IsPanic(f_0) THEN Panic ELSE MlSub(f_0, f_1)

get_poly_quotient(poly) ==
    LET f_1 == partial_evaluation(poly, 1, 0)
        f_0 == partial_evaluation(poly, 0, 0)
    IN  IF IsPanic(f_1) \/ IsPanic(f_0) THEN Panic ELSE MlSub(f_1, f_0)

\* the body of the loop of open for one variable_index (counted from 0):
\* the lifted quotient, or the abort of one of the calls on the way
blown_poly(poly, variable_index, last) ==
    LET quotient == get_poly_quotient(poly)
    IN  IF IsPanic(quotient) THEN Panic
        ELSE IF ~last THEN add_to_front(quotient, variable_index)
        ELSE IF variable_index = 0 THEN Panic
        ELSE LET duplicate_poly == duplicate_evaluation(quotient.evaluations)
             IN  IF IsPanic(duplicate_poly) THEN Panic
                 ELSE add_to_front(duplicate_poly, variable_index - 1)

RECURSIVE OpenLoop(_, _, _, _, _)
OpenLoop(poly, evaluation_points, powers_of_tau_in_g1, variable_index, proofs) ==
    LET n == Len(evaluation_points)
        last == (variable_index = n - 1)
        eval_point == evaluation_points[variable_index + 1]
        blown == blown_poly(poly, variable_index, last)
        proof == commitment(blown, powers_of_tau_in_g1)
        final == evaluation(poly, <<eval_point>>)
        remainder == IF last THEN additive_identity(variable_index)
                     ELSE get_poly_remainder(poly, eval_point)
    IN  IF variable_index >= n THEN [proofs |-> proofs, final_round_remainder |-> 0]
        ELSE IF last /\ IsPanic(final) THEN Panic
        ELSE IF IsPanic(blown) THEN Panic
        ELSE IF IsPanic(proof) THEN Panic
        ELSE IF last
          THEN [proofs |-> Append(proofs, proof.g1), final_round_remainder |-> final.value]
        ELSE IF IsPanic(remainder) THEN Panic
        ELSE OpenLoop(remainder, evaluation_points, powers_of_tau_in_g1,
                      variable_index + 1, Append(proofs, proof.g1))

open(poly_, evaluation_points, powers_of_tau_in_g1) ==
    LET eval == evaluation(poly_, evaluation_points)
        run == OpenLoop(poly_, evaluation_points, powers_of_tau_in_g1, 0, <<>>)
    IN  IF IsPanic(eval) THEN Panic
        ELSE IF IsPanic(run) THEN Panic
        ELSE IF eval.value # run.final_round_remainder THEN Panic
        ELSE [evaluation |-> eval.value, proofs |-> run.proofs]

\* the product over i of e(proofs[i], tau_g2[i] - r_g2[i])
RECURSIVE sum_pairing_results(_, _, _)
sum_pairing_results(powers_of_tau_in_g2, verifier_point_powers_of_tau_in_g2, proofs) ==
    IF proofs = <<>> THEN 0
    ELSE FAdd(FMul(Head(proofs),
                   FSub(Head(powers_of_tau_in_g2), Head(verifier_point_powers_of_tau_in_g2))),
              sum_pairing_results(Tail(powers_of_tau_in_g2),
                                  Tail(verifier_point_powers_of_tau_in_g2), Tail(proofs)))

KzgVerify(commit_g1, verifier_points, proof, powers_of_tau_in_g2) ==
    LET v == proof.evaluation
        lhs == FMul(FSub(commit_g1, v), 1)
        rhs == sum_pairing_results(powers_of_tau_in_g2,
                                   generate_powers_of_tau_in_g2(verifier_points),
                                   proof.proofs)
    IN  lhs = rhs

(***************************************************************************)
(* GKRCircuit (gkr/src/circuit.rs, gkr/src/utils.rs).  A gate is           *)
(* [gate_type |-> "Add" | "Mul", inputs |-> <<left, right>>], indices      *)
(* counted from 0; layer 0 is the output layer.                            *)
(***************************************************************************)
\* a gate that reads its left input twice
GateValueLeftTwice(gate, current_input) ==
    IF gate.gate_type = "Add"
      THEN FAdd(current_input[gate.inputs[1] + 1], current_input[gate.inputs[1] + 1])
    ELSE FMul(current_input[gate.inputs[1] + 1], current_input[gate.inputs[1] + 1])

GateValue(gate, current_input) ==
    IF gate.gate_type = "Add"
      THEN FAdd(current_input[gate.inputs[1] + 1], current_input[gate.inputs[2] + 1])
    ELSE FMul(current_input[gate.inputs[1] + 1], current_input[gate.inputs[2] + 1])

\* the loop over self.layers.iter().rev(); layers holds the result reversed
RECURSIVE CircuitEvaluationLoop(_, _, _)
CircuitEvaluationLoop(circuit, k, layers) ==
    IF k = 0 THEN [layers |-> layers]
    ELSE LET current_input == Head(layers)
             gates == circuit[k]
         IN  IF \E g \in 1..Len(gates) : \E side \in 1..2 :
                    gates[g].inputs[side] >= Len(current_input)
               THEN Panic
             ELSE CircuitEvaluationLoop(circuit, k - 1,
                      <<Collect([g \in 1..Len(gates) |-> GateValue(gates[g], current_input)])>>
                      \o layers)

CircuitEvaluation(circuit, input) == CircuitEvaluationLoop(circuit, Len(circuit), <<input>>)

size_of_mle_n_var_at_each_layer(layer_index) ==
    IF layer_index = 0 THEN Pow2(3) ELSE Pow2(layer_index + 2 * (layer_index + 1))

\* the length of format!("{:b}", index)
RECURSIVE BinaryLen(_)
BinaryLen(index) == IF index <= 1 THEN 1 ELSE 1 + BinaryLen(index \div 2)

\* the length of binary_string(index, bit_count): padded, never truncated
BinaryStringLen(index, bit_count) ==
    LET count == IF bit_count = 0 THEN 1 ELSE bit_count
    IN  IF BinaryLen(index) > count THEN BinaryLen(index) ELSE count

\* a label that leaves the gate index out
transform_label_without_gate(layer_index, a, b, c) ==
    b * Pow2(BinaryStringLen(c, layer_index + 1)) + c

transform_label_to_binary_and_to_decimal(layer_index, a, b, c) ==
    LET b_len == BinaryStringLen(b, layer_index + 1)
        c_len == BinaryStringLen(c, layer_index + 1)
    IN  a * Pow2(b_len + c_len) + b * Pow2(c_len) + c

GateDecimal(layer_index, gates, g) ==
    transform_label_to_binary_and_to_decimal(layer_index, g - 1,
                                             gates[g].inputs[1], gates[g].inputs[2])

\* the two wiring tables of a layer; indexing past self.layers or past a
\* table aborts
add_mult_mle(circuit, layer_index) ==
    IF layer_index >= Len(circuit) THEN Panic
    ELSE LET gates == circuit[layer_index + 1]
             n_vars == size_of_mle_n_var_at_each_layer(layer_index)
             Table(gate_type) ==
                 Collect([k \in 1..n_vars |->
                     IF \E g \in 1..Len(gates) :
                            /\ gates[g].gate_type = gate_type
                            /\ GateDecimal(layer_index, gates, g) = k - 1
                       THEN 1 ELSE 0])
         IN  IF \E g \in 1..Len(gates) : GateDecimal(layer_index, gates, g) >= n_vars
               THEN Panic
             ELSE [add_mle |-> MultilinearNew(Table("Add")),
                   mult_mle |-> MultilinearNew(Table("Mul"))]

w_mle(layer_eval) == MultilinearNew(layer_eval)

(***************************************************************************)
(* GKRProtocol (gkr/src/protocol.rs, gkr/src/utils.rs)                     *)
(***************************************************************************)
RECURSIVE SumcheckProofToBytesFrom(_, _)
SumcheckProofToBytesFrom(round_polys, k) ==
    IF k > Len(round_polys) THEN <<>>
    ELSE UnivariateToBytes(round_polys[k]) \o SumcheckProofToBytesFrom(round_polys, k + 1)

\* ComposedSumcheckProof::to_bytes: the round polynomials, not the sum
SumcheckProofToBytes(self) == SumcheckProofToBytesFrom(self.round_polys, 1)

\* value is computed once and handed to In under a name
Let(value, In(_)) == In(value)

\* the steps a layer's sumcheck shares in the prover: f(b, c) =
\* add.(W(b) + W(c)) + mul.(W(b).W(c)) is proved with prove_partial, the proof is
\* absorbed, W is evaluated at the two halves of the challenges, alpha and beta
\* are squeezed and the next claim is alpha.W(b) + beta.W(c)
ProveLayerSumcheck(add_poly, mul_poly, w_i_mle, sum, transcript, env) ==
    Let(prove_partial(<<ComposedNew(<<add_poly, add_distinct(w_i_mle, w_i_mle)>>),
                        ComposedNew(<<mul_poly, mul_distinct(w_i_mle, w_i_mle)>>)>>,
                      sum, env), LAMBDA run :
    IF IsPanic(run) THEN run
    ELSE
    Let(SubSeq(run.challenges, 1, Len(run.challenges) \div 2), LAMBDA b :
    Let(SubSeq(run.challenges, Len(run.challenges) \div 2 + 1, Len(run.challenges)), LAMBDA c :
    Let(evaluation(w_i_mle, b), LAMBDA eval_wb :
    Let(evaluation(w_i_mle, c), LAMBDA eval_wc :
    IF IsPanic(eval_wb) \/ IsPanic(eval_wc) THEN [panic |-> TRUE, env |-> run.env]
    ELSE
    Let(evaluate_challenge_into_field(run.env,
            commit(transcript, SumcheckProofToBytes(run.proof))), LAMBDA alpha :
    Let(evaluate_challenge_into_field(alpha.env, alpha.transcript), LAMBDA beta :
        [claimed_sum |-> FAdd(FMul(alpha.value, eval_wb.value),
                              FMul(beta.value, eval_wc.value)),
         alpha |-> alpha.value, beta |-> beta.value, rb |-> b, rc |-> c,
         sumcheck_proof |-> run.proof, eval_wb |-> eval_wb.value,
         eval_wc |-> eval_wc.value, transcript |-> beta.transcript,
         env |-> beta.env])))))))

generate_layer_one_prove_sumcheck(add_mle, mult_mle, w_1_mle, n_r, sum, transcript, env) ==
    ProveLayerSumcheck(partial_evaluations(add_mle, n_r, Repeat(0, Len(n_r))),
                       partial_evaluations(mult_mle, n_r, Repeat(0, Len(n_r))),
                       w_1_mle, sum, transcript, env)

\* alpha * mle(r_b, b, c) + beta * mle(r_c, b, c); both partial evaluations are
\* taken at vec![0; r_b.len()]
alpha_beta(mle, last) ==
    MlAdd(MlScale(partial_evaluations(mle, last.rb, Repeat(0, Len(last.rb))), last.alpha),
          MlScale(partial_evaluations(mle, last.rc, Repeat(0, Len(last.rb))), last.beta))

\* the loop of prove over layer_index (counted from 0) in 2..layers.len();
\* last is the result of the previous layer, proof the vectors pushed so far
RECURSIVE GkrProveLoop(_, _, _, _, _)
GkrProveLoop(circuit, circuit_eval, layer_index, last, proof) ==
    IF layer_index >= Len(circuit_eval.layers)
      THEN [proof |-> proof, r_b |-> last.rb, r_c |-> last.rc, env |-> last.env]
    ELSE
    Let(add_mult_mle(circuit, layer_index - 1), LAMBDA mles :
    IF IsPanic(mles) THEN [panic |-> TRUE, env |-> last.env]
    ELSE
    Let(ProveLayerSumcheck(alpha_beta(mles.add_mle, last), alpha_beta(mles.mult_mle, last),
                           w_mle(circuit_eval.layers[layer_index + 1]),
                           last.claimed_sum, last.transcript, last.env), LAMBDA next :
    IF IsPanic(next) THEN next
    ELSE GkrProveLoop(circuit, circuit_eval, layer_index + 1, next,
             [proof EXCEPT !.sumcheck_proofs = Append(@, next.sumcheck_proof),
                           !.wb_s = Append(@, next.eval_wb),
                           !.wc_s = Append(@, next.eval_wc)])))

\* the part of prove that GKRProtocol and SuccintGKRProtocol share: the output
\* layer, the layer-one sumcheck and the loop over the deeper layers
GkrProveLayers(circuit, input, env) ==
    Let(CircuitEvaluation(circuit, input), LAMBDA circuit_eval :
    IF IsPanic(circuit_eval) THEN [panic |-> TRUE, env |-> env]
    ELSE
    Let(w_mle(Append(circuit_eval.layers[1], 0)), LAMBDA w_0_mle :
    IF IsPanic(w_0_mle) THEN [panic |-> TRUE, env |-> env]
    ELSE
    Let(evaluate_n_challenge_into_field(env, commit(TranscriptNew, to_bytes(w_0_mle)),
                                        w_0_mle.n_vars), LAMBDA n_r :
    Let(add_mult_mle(circuit, 0), LAMBDA mles :
    IF IsPanic(mles) \/ Len(circuit_eval.layers) < 2
      THEN [panic |-> TRUE, env |-> n_r.env]
    ELSE
    Let(generate_layer_one_prove_sumcheck(mles.add_mle, mles.mult_mle,
            w_mle(circuit_eval.layers[2]), n_r.values,
            evaluation(w_0_mle, n_r.values).value, n_r.transcript, n_r.env), LAMBDA one :
    IF IsPanic(one) THEN one
    ELSE GkrProveLoop(circuit, circuit_eval, 2, one,
                      [sumcheck_proofs |-> <<one.sumcheck_proof>>,
                       wb_s |-> <<one.eval_wb>>, wc_s |-> <<one.eval_wc>>,
                       w_0_mle |-> w_0_mle]))))))

GkrProve(circuit, input, env) ==
    Let(GkrProveLayers(circuit, input, env), LAMBDA run :
    IF IsPanic(run) THEN run ELSE [proof |-> run.proof, env |-> run.env])

\* the verifier's result: the value returned, or "panic", and the step that
\* ended the call
GkrVerdict(verdict, at, env) == [verdict |-> verdict, at |-> at, env |-> env]

\* returns (status, new_claim) with the advanced transcript, or the verdict
\* of the abort
generate_layer_one_verify_sumcheck(add_mle, mult_mle, proof, n_r, sum, transcript, env, wb, wc) ==
    IF sum # proof.sum THEN [status |-> FALSE, at |-> "layer_sum", env |-> env]
    ELSE
    Let(verify_partial(proof, env), LAMBDA verify_subclaim :
    IF ~verify_subclaim.ok THEN GkrVerdict("panic", "round_check", verify_subclaim.env)
    ELSE
    Let(evaluation(add_mle, n_r \o verify_subclaim.challenges), LAMBDA add_bc :
    Let(evaluation(mult_mle, n_r \o verify_subclaim.challenges), LAMBDA mul_bc :
    IF IsPanic(add_bc) \/ IsPanic(mul_bc)
      THEN GkrVerdict("panic", "wiring_evaluation", verify_subclaim.env)
    ELSE IF FAdd(FMul(add_bc.value, FAdd(wb, wc)), FMul(mul_bc.value, FMul(wb, wc)))
            # verify_subclaim.sum
      THEN [status |-> FALSE, at |-> "oracle_check", env |-> verify_subclaim.env]
    ELSE
    Let(evaluate_challenge_into_field(verify_subclaim.env,
            commit(transcript, SumcheckProofToBytes(proof))), LAMBDA alpha :
    Let(evaluate_challenge_into_field(alpha.env, alpha.transcript), LAMBDA beta :
        [status |-> TRUE, sum |-> FAdd(FMul(alpha.value, wb), FMul(beta.value, wc)),
         transcript |-> beta.transcript, env |-> beta.env])))))

\* the loop of verify over i (counted from 0) in 1..proof.sumcheck_proofs.len();
\* last holds r_b, r_c, alpha, beta and the oracle
RECURSIVE GkrVerifyLoop(_, _, _, _, _)
GkrVerifyLoop(proof, i, claimed_sum, last, transcript) ==
    IF i >= Len(proof.sumcheck_proofs) THEN [last EXCEPT !.claimed_sum = claimed_sum]
    ELSE IF claimed_sum # proof.sumcheck_proofs[i + 1].sum
      THEN GkrVerdict("false", "layer_sum", last.env)
    ELSE
    Let(verify_partial(proof.sumcheck_proofs[i + 1], last.env), LAMBDA verify_subclaim :
    IF ~verify_subclaim.ok THEN GkrVerdict("panic", "round_check", verify_subclaim.env)
    ELSE
    Let(evaluate_challenge_into_field(verify_subclaim.env,
            commit(transcript, SumcheckProofToBytes(proof.sumcheck_proofs[i + 1]))),
        LAMBDA alph :
    Let(evaluate_challenge_into_field(alph.env, alph.transcript), LAMBDA bta :
        GkrVerifyLoop(proof, i + 1,
            FAdd(FMul(alph.value, proof.wb_s[i + 1]), FMul(bta.value, proof.wc_s[i + 1])),
            [r_b |-> SubSeq(verify_subclaim.challenges, 1,
                            Len(verify_subclaim.challenges) \div 2),
             r_c |-> SubSeq(verify_subclaim.challenges,
                            Len(verify_subclaim.challenges) \div 2 + 1,
                            Len(verify_subclaim.challenges)),
             alpha |-> alph.value, beta |-> bta.value, claimed_sum |-> 0,
             env |-> bta.env],
            bta.transcript))))

\* the part of verify that GKRProtocol and SuccintGKRProtocol share, up to the
\* end of the loop; initial is the value alpha and beta start with (zero in
\* GKRProtocol, one in SuccintGKRProtocol)
GkrVerifyLayers(circuit, proof, initial, env) ==
    IF \/ Len(proof.sumcheck_proofs) # Len(proof.wb_s)
       \/ Len(proof.sumcheck_proofs) # Len(proof.wc_s)
      THEN GkrVerdict("false", "lengths", env)
    ELSE
    Let(evaluate_n_challenge_into_field(env, commit(TranscriptNew, to_bytes(proof.w_0_mle)),
                                        proof.w_0_mle.n_vars), LAMBDA n_r :
    Let(evaluation(proof.w_0_mle, n_r.values), LAMBDA claimed_sum :
    IF IsPanic(claimed_sum) THEN GkrVerdict("panic", "output_evaluation", n_r.env)
    ELSE
    Let(add_mult_mle(circuit, 0), LAMBDA mles :
    IF IsPanic(mles) THEN GkrVerdict("panic", "wiring", n_r.env)
    ELSE IF proof.sumcheck_proofs = <<>> THEN GkrVerdict("panic", "index", n_r.env)
    ELSE
    Let(generate_layer_one_verify_sumcheck(mles.add_mle, mles.mult_mle,
            proof.sumcheck_proofs[1], n_r.values, claimed_sum.value,
            n_r.transcript, n_r.env, proof.wb_s[1], proof.wc_s[1]), LAMBDA one :
    IF "verdict" \in DOMAIN one THEN one
    ELSE IF ~one.status THEN GkrVerdict("false", one.at, one.env)
    ELSE GkrVerifyLoop(proof, 1, one.sum,
                       [r_b |-> <<>>, r_c |-> <<>>, alpha |-> initial,
                        beta |-> initial, claimed_sum |-> 0, env |-> one.env],
                       one.transcript)))))

GkrVerify(circuit, input, proof, env) ==
    Let(GkrVerifyLayers(circuit, proof, 0, env), LAMBDA last :
    IF "verdict" \in DOMAIN last THEN last
    ELSE
    Let(evaluation(w_mle(input), last.r_b), LAMBDA w_mle_rb_input :
    Let(evaluation(w_mle(input), last.r_c), LAMBDA w_mle_rc_input :
    IF IsPanic(w_mle_rb_input) \/ IsPanic(w_mle_rc_input)
      THEN GkrVerdict("panic", "input_evaluation", last.env)
    ELSE IF last.claimed_sum # FAdd(FMul(last.alpha, w_mle_rb_input.value),
                                    FMul(last.beta, w_mle_rc_input.value))
      THEN GkrVerdict("false", "input_check", last.env)
    ELSE GkrVerdict("true", "end", last.env))))

(***************************************************************************)
(* SuccintGKRProtocol (succint-gkr/src/succint_gkr.rs, the same steps as   *)
(* gkr/src/succint_protocol.rs): the input layer is committed with the     *)
(* multilinear KZG and opened at r_b and r_c.                              *)
(***************************************************************************)
KzgProofDefault == [evaluation |-> 0, proofs |-> <<>>]

\* the number of halvings of value down to one; asserts that each is exact
RECURSIVE exponent(_)
exponent(value) ==
    IF value <= 1 THEN [value |-> 0]
    ELSE IF value % 2 # 0 THEN Panic
    ELSE LET rest == exponent(value \div 2)
         IN  IF IsPanic(rest) THEN Panic ELSE [value |-> rest.value + 1]

\* the branch of prove's loop for the last layer: the input layer's MLE is
\* widened to the setup's number of variables, committed and opened at the
\* zero-padded b and c
SuccintCommitAndOpen(w_i_mle, b, c, tau) ==
    Let(exponent(Len(tau.powers_of_tau_in_g1)), LAMBDA exponent_from_powers_of_tau :
    IF IsPanic(exponent_from_powers_of_tau) THEN Panic
    ELSE IF exponent_from_powers_of_tau.value - w_i_mle.n_vars < 0 THEN Panic
    ELSE
    Let(add_to_back(w_i_mle, exponent_from_powers_of_tau.value - w_i_mle.n_vars),
        LAMBDA poly :
    IF IsPanic(poly) \/ poly.n_vars < Len(b) \/ poly.n_vars < Len(c) THEN Panic
    ELSE
    Let(commitment(poly, tau.powers_of_tau_in_g1), LAMBDA commit_g1 :
    Let(open(poly, b \o Repeat(0, poly.n_vars - Len(b)), tau.powers_of_tau_in_g1),
        LAMBDA proof_wb_opening :
    Let(open(poly, c \o Repeat(0, poly.n_vars - Len(c)), tau.powers_of_tau_in_g1),
        LAMBDA proof_wc_opening :
    IF IsPanic(commit_g1) \/ IsPanic(proof_wb_opening) \/ IsPanic(proof_wc_opening)
      THEN Panic
    ELSE [commitment |-> commit_g1.g1, proof_wb_opening |-> proof_wb_opening,
          proof_wc_opening |-> proof_wc_opening])))))

SuccintProve(circuit, input, tau, env) ==
    Let(GkrProveLayers(circuit, input, env), LAMBDA run :
    IF IsPanic(run) THEN run
    ELSE
    Let(IF Len(circuit) >= 2
          THEN SuccintCommitAndOpen(w_mle(input), run.r_b, run.r_c, tau)
        ELSE [commitment |-> 0, proof_wb_opening |-> KzgProofDefault,
              proof_wc_opening |-> KzgProofDefault], LAMBDA kzg_part :
    IF IsPanic(kzg_part) THEN [panic |-> TRUE, env |-> run.env]
    ELSE [commitment |-> kzg_part.commitment,
          proof |-> [sumcheck_proofs |-> run.proof.sumcheck_proofs,
                     wb_s |-> run.proof.wb_s, wc_s |-> run.proof.wc_s,
                     w_0_mle |-> run.proof.w_0_mle,
                     proof_wb_opening |-> kzg_part.proof_wb_opening,
                     proof_wc_opening |-> kzg_part.proof_wc_opening],
          env |-> run.env]))

\* the verdict, with whether the two KZG verifications were reached and what
\* they returned
SuccintVerdict(verdict, kzg_checked, verify_rb, verify_rc) ==
    verdict @@ [kzg_checked |-> kzg_checked, verify_rb |-> verify_rb, verify_rc |-> verify_rc]

\* the end of verify: the openings' evaluations replace zero only when both
\* verifications passed, and the claim is compared with the sum
SuccintFinalCheck(last, proof, verify_rb, verify_rc) ==
    SuccintVerdict(
        GkrVerdict(IF last.claimed_sum
                        # FAdd(FMul(last.alpha, IF verify_rb /\ verify_rc
                                                  THEN proof.proof_wb_opening.evaluation
                                                ELSE 0),
                               FMul(last.beta, IF verify_rb /\ verify_rc
                                                 THEN proof.proof_wc_opening.evaluation
                                               ELSE 0))
                     THEN "false" ELSE "true",
                   "end", last.env),
        TRUE, verify_rb, verify_rc)

SuccintVerify(circuit, commit_g1, proof, tau, env) ==
    Let(GkrVerifyLayers(circuit, proof, 1, env), LAMBDA last :
    IF "verdict" \in DOMAIN last THEN SuccintVerdict(last, FALSE, FALSE, FALSE)
    ELSE IF \/ Len(tau.powers_of_tau_in_g2) < Len(last.r_b)
            \/ Len(tau.powers_of_tau_in_g2) < Len(last.r_c)
      THEN SuccintVerdict(GkrVerdict("panic", "padding", last.env), FALSE, FALSE, FALSE)
    ELSE SuccintFinalCheck(last, proof,
             KzgVerify(commit_g1,
                       last.r_b \o Repeat(0, Len(tau.powers_of_tau_in_g2) - Len(last.r_b)),
                       proof.proof_wb_opening, tau.powers_of_tau_in_g2),
             KzgVerify(commit_g1,
                       last.r_c \o Repeat(0, Len(tau.powers_of_tau_in_g2) - Len(last.r_c)),
                       proof.proof_wc_opening, tau.powers_of_tau_in_g2)))

(***************************************************************************)
(* The multilinear workspace: a value is constructed and the public        *)
(* operations are applied to what the previous call returned.              *)
(*   ml.op    the operation called last                                    *)
(*   ml.self  the value it was called on (Null for new and                 *)
(*            duplicate_evaluation)                                        *)
(*   ml.args  its other arguments                                          *)
(*   ml.ret   what it returned, or Panic                                   *)
(***************************************************************************)
Null == [none |-> TRUE]

IsMultilinear(x) == "n_vars" \in DOMAIN x

\* every sequence over Vals of length at most 2^maxv
TablesUpTo(maxv) == UNION {SeqsOfLen(Vals, n) : n \in 0..Pow2(maxv)}

\* the well-formed multilinears over Vals with at most maxv variables
Polys(maxv) == {MultilinearNew(e) : e \in UNION {SeqsOfLen(Vals, Pow2(n)) : n \in 0..maxv}}

MlIdle == [op |-> "none", self |-> Null, args |-> <<>>, ret |-> Null, steps |-> 0]

MlCall(op, self, args, ret) ==
    ml' = [op |-> op, self |-> self, args |-> args, ret |-> ret, steps |-> ml.steps + 1]

MlCanCall == ml.steps < MaxOps /\ IsMultilinear(ml.ret)

MlOthersUnchanged == UNCHANGED <<oracle, sc, mcs, kzg, gkr, sgkr, collapse, circ, fs, dense, merlin>>

CallNew ==
    /\ ml.steps < MaxOps
    /\ \E evaluations \in TablesUpTo(MaxVars) :
          MlCall("new", Null, <<evaluations>>, MultilinearNew(evaluations))
    /\ MlOthersUnchanged

CallPartialEvaluation ==
    /\ MlCanCall
    /\ \E eval_point \in Chal, variable_index \in 0..MaxVars :
          MlCall("partial_evaluation", ml.ret, <<eval_point, variable_index>>,
                 partial_evaluation(ml.ret, eval_point, variable_index))
    /\ MlOthersUnchanged

CallPartialEvaluations ==
    /\ MlCanCall
    /\ \E n \in 0..2 : \E points \in SeqsOfLen(Chal, n), variable_indices \in SeqsOfLen(0..1, n) :
          MlCall("partial_evaluations", ml.ret, <<points, variable_indices>>,
                 partial_evaluations(ml.ret, points, variable_indices))
    /\ MlOthersUnchanged

CallAddDistinct ==
    /\ MlCanCall
    /\ \E rhs \in Polys(MaxRhsVars) :
          MlCall("add_distinct", ml.ret, <<rhs>>, add_distinct(ml.ret, rhs))
    /\ MlOthersUnchanged

CallMulDistinct ==
    /\ MlCanCall
    /\ \E rhs \in Polys(MaxRhsVars) :
          MlCall("mul_distinct", ml.ret, <<rhs>>, mul_distinct(ml.ret, rhs))
    /\ MlOthersUnchanged

CallAddToFront ==
    /\ MlCanCall
    /\ \E variable_length \in 0..MaxLift :
          MlCall("add_to_front", ml.ret, <<variable_length>>, add_to_front(ml.ret, variable_length))
    /\ MlOthersUnchanged

CallAddToBack ==
    /\ MlCanCall
    /\ \E variable_length \in 0..MaxLift :
          MlCall("add_to_back", ml.ret, <<variable_length>>, add_to_back(ml.ret, variable_length))
    /\ MlOthersUnchanged

CallDuplicateEvaluation ==
    /\ ml.steps < MaxOps
    /\ \E value \in TablesUpTo(MaxRhsVars + 1) :
          MlCall("duplicate_evaluation", Null, <<value>>, duplicate_evaluation(value))
    /\ MlOthersUnchanged

CallPickPairs ==
    /\ ml.steps < MaxOps
    /\ \E num_of_evaluations \in 0..MaxPairsLen, variable_index \in 0..MaxVars :
          MlCall("pick_pairs_with_random_index", Null, <<num_of_evaluations, variable_index>>,
                 pick_pairs_with_random_index(num_of_evaluations, variable_index))
    /\ MlOthersUnchanged

CallSplitAndSum ==
    /\ MlCanCall
    /\ MlCall("split_poly_into_two_and_sum_each_part", ml.ret, <<>>,
              split_poly_into_two_and_sum_each_part(ml.ret))
    /\ MlOthersUnchanged

CallAdd ==
    /\ MlCanCall
    /\ \E rhs \in Polys(MaxRhsVars) : MlCall("add", ml.ret, <<rhs>>, MlAdd(ml.ret, rhs))
    /\ MlOthersUnchanged

CallSub ==
    /\ MlCanCall
    /\ \E rhs \in Polys(MaxRhsVars) : MlCall("sub", ml.ret, <<rhs>>, MlSub(ml.ret, rhs))
    /\ MlOthersUnchanged

CallScale ==
    /\ MlCanCall
    /\ \E rhs \in Chal : MlCall("mul", ml.ret, <<rhs>>, MlScale(ml.ret, rhs))
    /\ MlOthersUnchanged

OracleIdle == <<>>

ScIdle == Null

McsIdle == Null

KzgIdle == Null

GkrIdle == Null

SgkrIdle == Null

CollapseIdle == Null

CircIdle == Null

FsIdle == Null

DenseIdle == Null

MerlinIdle == Null

InitML ==
    /\ ml = MlIdle
    /\ oracle = OracleIdle
    /\ sc = ScIdle
    /\ mcs = McsIdle
    /\ kzg = KzgIdle
    /\ gkr = GkrIdle
    /\ sgkr = SgkrIdle
    /\ collapse = CollapseIdle
    /\ circ = CircIdle
    /\ fs = FsIdle
    /\ dense = DenseIdle
    /\ merlin = MerlinIdle

NextML ==
    \/ CallNew
    \/ CallPartialEvaluation
    \/ CallPartialEvaluations
    \/ CallAddDistinct
    \/ CallMulDistinct
    \/ CallAddToFront
    \/ CallAddToBack
    \/ CallDuplicateEvaluation
    \/ CallSplitAndSum
    \/ CallAdd
    \/ CallSub
    \/ CallScale
    \/ CallPickPairs

SpecML == InitML /\ [][NextML]_vars

\* C10: every Multilinear value a public operation returns has
\* evaluations.len() = 2^n_vars (a call that cannot produce such a value aborts,
\* that is, returns no value at all).
C10_ReturnedLengthIsPowerOfTwo ==
    IsMultilinear(ml.ret) => Len(ml.ret.evaluations) = Pow2(ml.ret.n_vars)

\* a value whose table has the length its n_vars announces
WellFormed(poly) == IsMultilinear(poly) /\ Len(poly.evaluations) = Pow2(poly.n_vars)

\* the index of n bits obtained from k by inserting bit at the position of
\* variable v, variable 0 being the most significant bit
InsertBit(k, n, v, bit) ==
    (k \div Pow2(n - 1 - v)) * Pow2(n - v) + bit * Pow2(n - 1 - v) + (k % Pow2(n - 1 - v))

RECURSIVE RepeatTable(_, _)
RepeatTable(evaluations, count) ==
    IF count = 0 THEN <<>> ELSE evaluations \o RepeatTable(evaluations, count - 1)

\* C13: add_to_front(k) applied to a multilinear on n variables returns a
\* multilinear on n+k variables whose table is the original table repeated 2^k
\* times.
C13_AddToFrontRepeatsTable ==
    (ml.op = "add_to_front" /\ WellFormed(ml.self))
    => /\ IsMultilinear(ml.ret)
       /\ ml.ret.n_vars = ml.self.n_vars + ml.args[1]
       /\ ml.ret.evaluations = RepeatTable(ml.self.evaluations, Pow2(ml.args[1]))

\* what add_to_front returns on every well-formed value: one variable and one
\* doubling more than its argument says
AddToFrontAddsOneMore ==
    (ml.op = "add_to_front" /\ WellFormed(ml.self))
    => /\ IsMultilinear(ml.ret)
       /\ ml.ret.n_vars = ml.self.n_vars + ml.args[1] + 1
       /\ ml.ret.evaluations = RepeatTable(ml.self.evaluations, Pow2(ml.args[1] + 1))

\* C14: add_distinct(rhs) on operands with n and m variables returns a
\* multilinear on n+m variables whose entry at index i*2^m + j is
\* evals[i] + rhs.evals[j], so that for all b in F^n and c in F^m (Boolean or
\* not) its evaluation at (b, c) equals self.evaluation(b) + rhs.evaluation(c).
C14_AddDistinctIsSumOfEvaluations ==
    (ml.op = "add_distinct" /\ WellFormed(ml.self) /\ WellFormed(ml.args[1]))
    => /\ IsMultilinear(ml.ret)
       /\ ml.ret.n_vars = ml.self.n_vars + ml.args[1].n_vars
       /\ Len(ml.ret.evaluations) = Pow2(ml.self.n_vars + ml.args[1].n_vars)
       /\ \A i \in 0..(Pow2(ml.self.n_vars) - 1) : \A j \in 0..(Pow2(ml.args[1].n_vars) - 1) :
            ml.ret.evaluations[i * Pow2(ml.args[1].n_vars) + j + 1] =
              FAdd(ml.self.evaluations[i + 1], ml.args[1].evaluations[j + 1])
       /\ \A b \in SeqsOfLen(Chal, ml.self.n_vars) : \A c \in SeqsOfLen(Chal, ml.args[1].n_vars) :
            /\ ~IsPanic(evaluation(ml.ret, b \o c))
            /\ evaluation(ml.ret, b \o c).value =
                 FAdd(evaluation(ml.self, b).value, evaluation(ml.args[1], c).value)

\* two variables on the left, one on the right, neither table constant
C14_Witness ==
    /\ ml.op = "add_distinct"
    /\ WellFormed(ml.self)
    /\ ml.self.n_vars = 2
    /\ ml.args[1].n_vars = 1
    /\ ml.self.evaluations = <<0, 1, 1, 0>>
    /\ ml.args[1].evaluations = <<0, 1>>
    /\ IsMultilinear(ml.ret)

(***************************************************************************)
(* The sumcheck session: new, poly_sum, prove, verify                      *)
(***************************************************************************)
\*   sc.verifier    the instance verify is called on when it is not sc.self
\*   sc.presented   the proof verify is given when it is not sc.proof
ScStart == [pc |-> "none", self |-> Null, summed |-> FALSE, proof |-> Null,
            challenges |-> <<>>, verdict |-> "none", verifier |-> Null, presented |-> Null]

ScOthersUnchanged == UNCHANGED <<ml, mcs, kzg, gkr, sgkr, collapse, circ, fs, dense, merlin>>

ScCallNew ==
    /\ sc.pc = "none"
    /\ \E poly \in Polys(MaxScVars) :
         sc' = [sc EXCEPT !.pc = "new", !.self = SumcheckNew(poly)]
    /\ UNCHANGED oracle
    /\ ScOthersUnchanged

ScCallPolySum ==
    /\ sc.pc = "new"
    /\ sc' = [sc EXCEPT !.pc = "summed", !.self = poly_sum(sc.self), !.summed = TRUE]
    /\ UNCHANGED oracle
    /\ ScOthersUnchanged

ScCallProve ==
    /\ sc.pc \in {"new", "summed"}
    /\ \E run \in Outcomes(LAMBDA env : SumcheckProve(sc.self, env), oracle, <<>>, MaxScVars) :
         /\ sc' = [sc EXCEPT !.pc = "proved", !.proof = run.proof,
                             !.challenges = run.challenges]
         /\ oracle' = run.env.oracle
    /\ ScOthersUnchanged

ScCallVerify ==
    /\ sc.pc = "proved"
    /\ \E run \in Outcomes(LAMBDA env : SumcheckVerify(sc.self, sc.proof, env),
                           oracle, <<>>, MaxScVars) :
         /\ sc' = [sc EXCEPT !.pc = "verified", !.verdict = run.verdict]
         /\ oracle' = run.env.oracle
    /\ ScOthersUnchanged

\* the table of poly with entry k (counted from 1) moved by shift
ShiftedTable(poly, k, shift) ==
    MultilinearNew([poly.evaluations EXCEPT ![k] = FAdd(@, shift)])

\* a verifier built with a table that differs from the prover's in one entry
\* is handed the prover's proof
ScCallVerifyByOther ==
    /\ sc.pc = "proved"
    /\ \E k \in 1..Len(sc.self.poly.evaluations), shift \in 1..MaxTableShift :
         Let(poly_sum(SumcheckNew(ShiftedTable(sc.self.poly, k, shift))), LAMBDA verifier :
           \E run \in Outcomes(LAMBDA env : SumcheckVerify(verifier, sc.proof, env),
                               oracle, <<>>, MaxScVars) :
             /\ sc' = [sc EXCEPT !.pc = "verified_by_other", !.verdict = run.verdict,
                                 !.verifier = verifier]
             /\ oracle' = run.env.oracle)
    /\ ScOthersUnchanged

\* the proof without its last round polynomial, and with one more at the end
ScResizedProofs(proof) ==
    {[proof EXCEPT !.univariate_poly = Append(@, MultilinearNew(<<0, 0>>))]}
    \cup (IF proof.univariate_poly = <<>> THEN {}
          ELSE {[proof EXCEPT !.univariate_poly = SubSeq(@, 1, Len(@) - 1)]})

\* verify is handed the prover's proof with a round polynomial dropped or added
ScCallVerifyResized ==
    /\ sc.pc = "proved"
    /\ \E presented \in ScResizedProofs(sc.proof) :
         \E run \in Outcomes(LAMBDA env : SumcheckVerify(sc.self, presented, env),
                             oracle, <<>>, MaxScVars) :
           /\ sc' = [sc EXCEPT !.pc = "verified_resized", !.verdict = run.verdict,
                               !.presented = presented]
           /\ oracle' = run.env.oracle
    /\ ScOthersUnchanged

InitSumcheck ==
    /\ ml = MlIdle
    /\ oracle = OracleIdle
    /\ sc = ScStart
    /\ mcs = McsIdle
    /\ kzg = KzgIdle
    /\ gkr = GkrIdle
    /\ sgkr = SgkrIdle
    /\ collapse = CollapseIdle
    /\ circ = CircIdle
    /\ fs = FsIdle
    /\ dense = DenseIdle
    /\ merlin = MerlinIdle

NextSumcheck ==
    \/ ScCallNew
    \/ ScCallPolySum
    \/ ScCallProve
    \/ ScCallVerify
    \/ ScCallVerifyByOther
    \/ ScCallVerifyResized

SpecSumcheck == InitSumcheck /\ [][NextSumcheck]_vars

\* C6: with the claimed sum set by poly_sum(), verify accepts the proof that
\* prove produced for the same instance.
C6_HonestProofAccepted ==
    (sc.pc = "verified" /\ sc.summed) => sc.verdict = "true"

\* C6 witness: a two-variable polynomial with a non-zero sum went through
\* poly_sum, prove and verify, with two different round challenges.
C6_Witness ==
    /\ sc.pc = "verified"
    /\ sc.summed
    /\ sc.self.poly.n_vars = 2
    /\ sc.self.sum # 0
    /\ Len(sc.challenges) = 2
    /\ sc.challenges[1] # sc.challenges[2]
    /\ sc.verdict = "true"

\* the claim the last round of the prover's proof leaves: the last round
\* polynomial at the last challenge, the claimed sum when there is no round
ScFinalClaim(proof, challenges) ==
    IF proof.univariate_poly = <<>> THEN proof.sum
    ELSE evaluation(proof.univariate_poly[Len(proof.univariate_poly)],
                    <<challenges[Len(challenges)]>>).value

\* C24: the final oracle check of Sumcheck::verify evaluates the polynomial
\* known to the verifier, the one its instance was built with: a proof
\* produced for a table T is accepted by a verifier whose own table differs
\* from T only when the verifier's own polynomial takes the value of the final
\* claim at the challenges, never on the strength of the polynomial carried
\* inside the proof.
C24_OracleCheckUsesVerifiersPolynomial ==
    (sc.pc = "verified_by_other" /\ sc.verdict = "true") =>
        evaluation(sc.verifier.poly, sc.challenges).value = ScFinalClaim(sc.proof, sc.challenges)

\* what verify does with another verifier's table: nothing, the verdict is
\* the one the prover's own instance gets
VerifyIgnoresItsInstance ==
    (sc.pc = "verified_by_other" /\ sc.summed) => sc.verdict = "true"

\* C25: the sumcheck verifiers reject, without accepting and without
\* aborting, every proof whose number of round polynomials differs from the
\* number of variables of the polynomial being checked, with too few or with
\* extra trailing round polynomials.
C25_WrongRoundCountRejected ==
    sc.pc = "verified_resized" => sc.verdict = "false"

\* what Sumcheck::verify does with a wrong round count when the sum was set:
\* it aborts on a missing round polynomial and accepts with an extra one
ResizedAbortsOrAccepts ==
    (sc.pc = "verified_resized" /\ sc.summed) =>
        sc.verdict = (IF Len(sc.presented.univariate_poly) < sc.self.poly.n_vars
                        THEN "panic" ELSE "true")

(***************************************************************************)
(* The composed sumcheck session: an instance is built, the prover runs    *)
(* with a claimed sum, the verifier checks the proof                       *)
(***************************************************************************)
McsShapeEntry == [n_vars : 0..MaxMcsVars, factors : 1..MaxFactors]

RECURSIVE McsCells(_)
McsCells(shape) ==
    IF shape = <<>> THEN 0
    ELSE Head(shape).factors * Pow2(Head(shape).n_vars) + McsCells(Tail(shape))

McsShapes ==
    {shape \in UNION {[1..k -> McsShapeEntry] : k \in 0..MaxPolys} :
        McsCells(shape) <= MaxCells}

\* the composed polynomials of a shape, their tables cut from one flat fill
RECURSIVE McsBuild(_, _)
McsBuild(shape, fill) ==
    IF shape = <<>> THEN <<>>
    ELSE LET e == Head(shape)
             size == Pow2(e.n_vars)
             polys == Collect([f \in 1..e.factors |->
                         MultilinearNew(SubSeq(fill, (f - 1) * size + 1, f * size))])
         IN  <<ComposedNew(polys)>>
             \o McsBuild(Tail(shape), SubSeq(fill, e.factors * size + 1, Len(fill)))

\*   mcs.presented   the proof the verifier is given when it is not mcs.proof
McsStart == [pc |-> "none", poly |-> <<>>, sum |-> 0, proof |-> Null,
             challenges |-> <<>>, verdict |-> "none", presented |-> Null]

McsOthersUnchanged == UNCHANGED <<ml, sc, kzg, gkr, sgkr, collapse, circ, fs, dense, merlin>>

McsSetup ==
    /\ mcs.pc = "none"
    /\ \E shape \in McsShapes :
         \E fill \in SeqsOfLen(Vals, McsCells(shape)) :
           mcs' = [mcs EXCEPT !.pc = "ready", !.poly = McsBuild(shape, fill)]
    /\ UNCHANGED oracle
    /\ McsOthersUnchanged

McsCallProve ==
    /\ mcs.pc = "ready"
    /\ \E offset \in 0..MaxSumOffset :
         LET sum == FAdd(calculate_poly_sum(mcs.poly), offset)
         IN  \E run \in Outcomes(LAMBDA env : MultiComposedProve(mcs.poly, sum, env),
                                 oracle, <<>>, MaxMcsVars) :
               /\ oracle' = run.env.oracle
               /\ mcs' = IF IsPanic(run)
                           THEN [mcs EXCEPT !.pc = "prove_panic", !.sum = sum]
                         ELSE [mcs EXCEPT !.pc = "proved", !.sum = sum,
                                          !.proof = run.proof,
                                          !.challenges = run.challenges]
    /\ McsOthersUnchanged

McsCallVerify ==
    /\ mcs.pc = "proved"
    /\ \E run \in Outcomes(LAMBDA env : MultiComposedVerify(mcs.poly, mcs.proof, env),
                           oracle, <<>>, MaxMcsVars) :
         /\ oracle' = run.env.oracle
         /\ mcs' = [mcs EXCEPT !.pc = "verified", !.verdict = run.verdict]
    /\ McsOthersUnchanged

\* the proof without its last round polynomial, and with one more at the end
McsResizedProofs(proof) ==
    {[proof EXCEPT !.round_polys = Append(@, UnivariateZero)]}
    \cup (IF proof.round_polys = <<>> THEN {}
          ELSE {[proof EXCEPT !.round_polys = SubSeq(@, 1, Len(@) - 1)]})

\* verify is handed the prover's proof with a round polynomial dropped or added
McsCallVerifyResized ==
    /\ mcs.pc = "proved"
    /\ \E presented \in McsResizedProofs(mcs.proof) :
         \E run \in Outcomes(LAMBDA env : MultiComposedVerify(mcs.poly, presented, env),
                             oracle, <<>>, MaxMcsVars + 1) :
           /\ oracle' = run.env.oracle
           /\ mcs' = [mcs EXCEPT !.pc = "verified_resized", !.verdict = run.verdict,
                                 !.presented = presented]
    /\ McsOthersUnchanged

\* the largest max_degree among the composed polynomials
RECURSIVE LargestMaxDegree(_, _)
LargestMaxDegree(poly, k) ==
    IF k > Len(poly) THEN 0
    ELSE IF max_degree(poly[k]) > LargestMaxDegree(poly, k + 1) THEN max_degree(poly[k])
    ELSE LargestMaxDegree(poly, k + 1)

\* g + x^(d+2) - x^(d+1): the same values at 0 and at 1, degree d + 2
RaisedRoundPoly(round_poly, d) ==
    UnivariateAdd(round_poly, [monomial |-> <<[coeff |-> FNeg(1), pow |-> d + 1],
                                             [coeff |-> 1, pow |-> d + 2]>>])

\* the prover's proof with its last round polynomial raised in degree
McsRaisedProof(poly, proof) ==
    [proof EXCEPT !.round_polys[Len(proof.round_polys)] =
                      RaisedRoundPoly(@, LargestMaxDegree(poly, 1))]

McsCallVerifyRaised ==
    /\ mcs.pc = "proved"
    /\ mcs.proof.round_polys # <<>>
    /\ \E run \in Outcomes(LAMBDA env : MultiComposedVerify(mcs.poly,
                                           McsRaisedProof(mcs.poly, mcs.proof), env),
                           oracle, <<>>, MaxMcsVars) :
         /\ oracle' = run.env.oracle
         /\ mcs' = [mcs EXCEPT !.pc = "verified_raised", !.verdict = run.verdict,
                               !.presented = McsRaisedProof(mcs.poly, mcs.proof)]
    /\ McsOthersUnchanged

McsCallVerifyPartialRaised ==
    /\ mcs.pc = "proved"
    /\ mcs.proof.round_polys # <<>>
    /\ \E run \in Outcomes(LAMBDA env : verify_partial(McsRaisedProof(mcs.poly, mcs.proof), env),
                           oracle, <<>>, MaxMcsVars) :
         /\ oracle' = run.env.oracle
         /\ mcs' = [mcs EXCEPT !.pc = "partial_raised",
                               !.verdict = IF run.ok THEN "Ok" ELSE "Err",
                               !.presented = McsRaisedProof(mcs.poly, mcs.proof)]
    /\ McsOthersUnchanged

InitMcs ==
    /\ ml = MlIdle
    /\ oracle = OracleIdle
    /\ sc = ScIdle
    /\ mcs = McsStart
    /\ kzg = KzgIdle
    /\ gkr = GkrIdle
    /\ sgkr = SgkrIdle
    /\ collapse = CollapseIdle
    /\ circ = CircIdle
    /\ fs = FsIdle
    /\ dense = DenseIdle
    /\ merlin = MerlinIdle

NextMcs ==
    \/ McsSetup
    \/ McsCallProve
    \/ McsCallVerify
    \/ McsCallVerifyResized
    \/ McsCallVerifyRaised
    \/ McsCallVerifyPartialRaised

SpecMcs == InitMcs /\ [][NextMcs]_vars

McsSameVars ==
    \A k \in 1..Len(mcs.poly) : ComposedNVars(mcs.poly[k]) = ComposedNVars(mcs.poly[1])

\* C7: for a non-empty list of composed polynomials over the same number of
\* variables and the true sum as the claimed sum, the prover returns a proof
\* and verify returns Ok(true) on it.
C7_TrueSumAccepted ==
    (/\ mcs.pc \in {"prove_panic", "verified"}
     /\ mcs.poly # <<>>
     /\ McsSameVars
     /\ mcs.sum = calculate_poly_sum(mcs.poly))
    => (mcs.pc = "verified" /\ mcs.verdict = "Ok(true)")

\* C7 witness: two composed polynomials with different factor counts over the
\* same variable, a non-zero true sum as the claimed sum, and a round played
\* with a challenge outside {0, 1}; verify answered Ok(true).
C7_Witness ==
    /\ mcs.pc = "verified"
    /\ Len(mcs.poly) = 2
    /\ McsSameVars
    /\ ComposedNVars(mcs.poly[1]) = 1
    /\ max_degree(mcs.poly[1]) # max_degree(mcs.poly[2])
    /\ mcs.sum = calculate_poly_sum(mcs.poly)
    /\ mcs.sum # 0
    /\ mcs.challenges = <<2>>
    /\ mcs.verdict = "Ok(true)"

\* C8: the proof the prover produces for a claimed sum different from the
\* true sum is never answered with Ok(true).
C8_WrongSumNeverAccepted ==
    (mcs.pc = "verified" /\ mcs.sum # calculate_poly_sum(mcs.poly))
    => mcs.verdict # "Ok(true)"

\* C8 witness: a wrong claimed sum was verified and refused at the first
\* round check of a polynomial list with variables.
C8_Witness ==
    /\ mcs.pc = "verified"
    /\ mcs.sum # calculate_poly_sum(mcs.poly)
    /\ ComposedNVars(mcs.poly[1]) >= 1
    /\ mcs.verdict = "Err"

\* C8 witness for lists without variables: no round is played and the final
\* check answers Ok(false).
C8_WitnessNoRounds ==
    /\ mcs.pc = "verified"
    /\ mcs.sum # calculate_poly_sum(mcs.poly)
    /\ mcs.proof.round_polys = <<>>
    /\ mcs.verdict = "Ok(false)"

\* what MultiComposedSumcheckVerifier::verify does with a wrong round count:
\* it answers Err at a round check or aborts in the oracle check, and
\* accepts nothing
McsResizedErrOrAbort ==
    (mcs.pc = "verified_resized" /\ McsSameVars) => mcs.verdict \in {"Err", "panic"}

\* the largest power with a non-zero coefficient
RECURSIVE UnivariateDegree(_, _)
UnivariateDegree(monomial, k) ==
    IF k > Len(monomial) THEN 0
    ELSE IF monomial[k].coeff # 0 /\ monomial[k].pow > UnivariateDegree(monomial, k + 1)
      THEN monomial[k].pow
    ELSE UnivariateDegree(monomial, k + 1)

McsHasRaisedRound ==
    \E i \in 1..Len(mcs.presented.round_polys) :
        UnivariateDegree(mcs.presented.round_polys[i].monomial, 1)
            > LargestMaxDegree(mcs.poly, 1)

\* C26: the multi-composed sumcheck verifier (verify and verify_partial)
\* rejects any proof containing a round polynomial whose degree exceeds the
\* largest max_degree among the composed polynomials, even when that round
\* polynomial satisfies g(0) + g(1) = current claim.
C26_DegreeAboveBoundRejected ==
    (mcs.pc \in {"verified_raised", "partial_raised"} /\ McsHasRaisedRound) =>
        mcs.verdict \in {"Err", "Ok(false)"}

\* what verify_partial does with the raised one-round proof of a true sum: it
\* returns a sub-claim
PartialAcceptsRaised ==
    (/\ mcs.pc = "partial_raised"
     /\ McsSameVars
     /\ Len(mcs.proof.round_polys) = 1
     /\ mcs.sum = calculate_poly_sum(mcs.poly)) =>
        (McsHasRaisedRound /\ mcs.verdict = "Ok")

(***************************************************************************)
(* The KZG session: setup, commitment, open, verify; verify may also be    *)
(* given the G2 vector of another setup                                    *)
(***************************************************************************)
Points == 1..MaxPoint

KzgStart == [pc |-> "none", tau |-> <<>>, setup |-> Null, poly |-> Null, commit |-> 0,
             r |-> <<>>, proof |-> Null, tau_other |-> <<>>, verdict |-> FALSE]

KzgOthersUnchanged == UNCHANGED <<ml, oracle, sc, mcs, gkr, sgkr, collapse, circ, fs, dense, merlin>>

KzgCallSetup ==
    /\ kzg.pc = "none"
    /\ \E n \in 1..MaxKzgVars :
         \E tau \in SeqsOfLen(Points, n) :
           kzg' = [kzg EXCEPT !.pc = "setup", !.tau = tau, !.setup = setup(tau)]
    /\ KzgOthersUnchanged

KzgCallCommitment ==
    /\ kzg.pc = "setup"
    /\ \E evaluations \in SeqsOfLen(Vals, Pow2(Len(kzg.tau))) :
         LET poly == MultilinearNew(evaluations)
         IN  kzg' = [kzg EXCEPT !.pc = "committed", !.poly = poly,
                       !.commit = commitment(poly, kzg.setup.powers_of_tau_in_g1).g1]
    /\ KzgOthersUnchanged

KzgCallOpen ==
    /\ kzg.pc = "committed"
    /\ \E r \in SeqsOfLen(Points, Len(kzg.tau)) :
         LET proof == open(kzg.poly, r, kzg.setup.powers_of_tau_in_g1)
         IN  kzg' = IF IsPanic(proof) THEN [kzg EXCEPT !.pc = "open_panic", !.r = r]
                    ELSE [kzg EXCEPT !.pc = "opened", !.r = r, !.proof = proof]
    /\ KzgOthersUnchanged

KzgCallVerify ==
    /\ kzg.pc = "opened"
    /\ kzg' = [kzg EXCEPT !.pc = "verified",
                 !.verdict = KzgVerify(kzg.commit, kzg.r, kzg.proof,
                                       kzg.setup.powers_of_tau_in_g2)]
    /\ KzgOthersUnchanged

KzgCallVerifyOtherSetup ==
    /\ kzg.pc = "opened"
    /\ \E tau_other \in SeqsOfLen(Points, Len(kzg.tau)) \ {kzg.tau} :
         kzg' = [kzg EXCEPT !.pc = "verified_other", !.tau_other = tau_other,
                   !.verdict = KzgVerify(kzg.commit, kzg.r, kzg.proof,
                                         setup(tau_other).powers_of_tau_in_g2)]
    /\ KzgOthersUnchanged

InitKzg ==
    /\ ml = MlIdle
    /\ oracle = OracleIdle
    /\ sc = ScIdle
    /\ mcs = McsIdle
    /\ kzg = KzgStart
    /\ gkr = GkrIdle
    /\ sgkr = SgkrIdle
    /\ collapse = CollapseIdle
    /\ circ = CircIdle
    /\ fs = FsIdle
    /\ dense = DenseIdle
    /\ merlin = MerlinIdle

NextKzg ==
    \/ KzgCallSetup
    \/ KzgCallCommitment
    \/ KzgCallOpen
    \/ KzgCallVerify
    \/ KzgCallVerifyOtherSetup

SpecKzg == InitKzg /\ [][NextKzg]_vars

\* C4: for a polynomial of n >= 1 variables, open completes and verify accepts
\* the commitment with the proof it returned.
C4_OpenThenVerifyAccepts ==
    kzg.pc \in {"open_panic", "verified"} => (kzg.pc = "verified" /\ kzg.verdict)

\* the exponent of the product over i of e(proofs[i], tau_other_g2[i] - tau_g2[i])
RECURSIVE KzgSetupShift(_, _, _)
KzgSetupShift(proofs, tau_other, tau) ==
    IF proofs = <<>> THEN 0
    ELSE FAdd(FMul(Head(proofs), FSub(Head(tau_other), Head(tau))),
              KzgSetupShift(Tail(proofs), Tail(tau_other), Tail(tau)))

\* C5 (as stated): verify with the G2 vector of a setup point different from
\* the one the commitment and the proof were made under returns false.
C5_OtherSetupRejected ==
    kzg.pc = "verified_other" => ~kzg.verdict

\* C5 (amended): whenever open returned a proof, verify with the G2 vector of
\* another setup point of the same length returns false exactly when the
\* quotient commitments paired with the difference of the two G2 vectors do
\* not cancel; it returns true when they do (a constant polynomial, say).
C5_OtherSetupRejectedUnlessShiftCancels ==
    kzg.pc = "verified_other"
    => (kzg.verdict <=> KzgSetupShift(kzg.proof.proofs, kzg.tau_other, kzg.tau) = 0)

\* C5 witness: a proof for a three-variable polynomial with a non-zero quotient
\* commitment was checked against another setup and refused.
C5_Witness ==
    /\ kzg.pc = "verified_other"
    /\ Len(kzg.tau) = 3
    /\ \E i \in 1..Len(kzg.proof.proofs) : kzg.proof.proofs[i] # 0
    /\ ~kzg.verdict


(***************************************************************************)
(* A GKR session: a circuit and an input are fixed, prove runs, one round  *)
(* polynomial of the proof may be altered, verify runs.                    *)
(***************************************************************************)
GateTypes == {"Add", "Mul"}

Gate(gate_type, left, right) == [gate_type |-> gate_type, inputs |-> <<left, right>>]

\* gate g of the layer reads the values 2g and 2g + 1 of the layer below
TreeLayer(gate_types) ==
    Collect([g \in 1..Len(gate_types) |-> Gate(gate_types[g], 2 * (g - 1), 2 * (g - 1) + 1)])

\* the circuits of the canonical shape: layer i has 2^i gates
RECURSIVE CanonicalCircuits(_)
CanonicalCircuits(depth) ==
    IF depth = 0 THEN {<<>>}
    ELSE {Append(circuit, TreeLayer(gate_types)) :
              circuit \in CanonicalCircuits(depth - 1),
              gate_types \in SeqsOfLen(GateTypes, Pow2(depth - 1))}

\* single layers of one gate with any wiring, and of two gates
SingleLayerCircuits ==
    {<<<<Gate(gate_type, left, right)>>>> : gate_type \in GateTypes, left \in 0..1, right \in 0..1}
    \cup {<<TreeLayer(gate_types)>> : gate_types \in SeqsOfLen(GateTypes, 2)}

GkrCircuits == SingleLayerCircuits \cup UNION {CanonicalCircuits(depth) : depth \in 1..MaxLayers}

IsCanonical(circuit) == circuit \in CanonicalCircuits(Len(circuit))

GkrStart == [pc |-> "none", circuit |-> <<>>, input |-> <<>>, proof |-> Null,
             tampered |-> FALSE, verdict |-> "none", at |-> "none"]

GkrOthersUnchanged == UNCHANGED <<ml, sc, mcs, kzg, sgkr, collapse, circ, fs, dense, merlin>>

GkrSetup ==
    /\ gkr.pc = "none"
    /\ \E circuit \in GkrCircuits :
         \E input \in SeqsOfLen(Vals, 2 * Len(circuit[Len(circuit)])) :
           gkr' = [gkr EXCEPT !.pc = "ready", !.circuit = circuit, !.input = input]
    /\ UNCHANGED oracle
    /\ GkrOthersUnchanged

GkrCallProve ==
    /\ gkr.pc = "ready"
    /\ \E run \in Outcomes(LAMBDA env : GkrProve(gkr.circuit, gkr.input, env),
                           oracle, <<>>, MaxGkrFresh) :
         /\ oracle' = run.env.oracle
         /\ gkr' = IF IsPanic(run) THEN [gkr EXCEPT !.pc = "prove_panic", !.verdict = "panic",
                                                    !.at = "prove"]
                   ELSE [gkr EXCEPT !.pc = "proved", !.proof = run.proof]
    /\ GkrOthersUnchanged

\* one is added to the constant term of round polynomial j of the sumcheck
\* proof of layer i
GkrTamperRoundPoly ==
    /\ gkr.pc = "proved"
    /\ ~gkr.tampered
    /\ \E i \in 1..Len(gkr.proof.sumcheck_proofs) :
         \E j \in 1..Len(gkr.proof.sumcheck_proofs[i].round_polys) :
           gkr' = [gkr EXCEPT !.tampered = TRUE,
                     !.proof.sumcheck_proofs[i].round_polys[j] =
                         UnivariateAdd(@, [monomial |-> <<[coeff |-> 1, pow |-> 0]>>])]
    /\ UNCHANGED oracle
    /\ GkrOthersUnchanged

\* x^2 - x is added to the last round polynomial of the sumcheck proof of a
\* layer after the first: its values at 0 and at 1 stay what they were
GkrTamperLastRound ==
    /\ gkr.pc = "proved"
    /\ ~gkr.tampered
    /\ \E i \in 2..Len(gkr.proof.sumcheck_proofs) :
         /\ gkr.proof.sumcheck_proofs[i].round_polys # <<>>
         /\ gkr' = [gkr EXCEPT !.tampered = TRUE,
                      !.proof.sumcheck_proofs[i].round_polys[
                          Len(gkr.proof.sumcheck_proofs[i].round_polys)] =
                          UnivariateAdd(@, [monomial |-> <<[coeff |-> FNeg(1), pow |-> 1],
                                                         [coeff |-> 1, pow |-> 2]>>])]
    /\ UNCHANGED oracle
    /\ GkrOthersUnchanged

GkrCallVerify ==
    /\ gkr.pc = "proved"
    /\ \E run \in Outcomes(LAMBDA env : GkrVerify(gkr.circuit, gkr.input, gkr.proof, env),
                           oracle, <<>>, MaxGkrFresh) :
         /\ oracle' = run.env.oracle
         /\ gkr' = [gkr EXCEPT !.pc = "verified", !.verdict = run.verdict, !.at = run.at]
    /\ GkrOthersUnchanged

InitGkr ==
    /\ ml = MlIdle
    /\ oracle = OracleIdle
    /\ sc = ScIdle
    /\ mcs = McsIdle
    /\ kzg = KzgIdle
    /\ gkr = GkrStart
    /\ sgkr = SgkrIdle
    /\ collapse = CollapseIdle
    /\ circ = CircIdle
    /\ fs = FsIdle
    /\ dense = DenseIdle
    /\ merlin = MerlinIdle

NextGkr ==
    \/ GkrSetup
    \/ GkrCallProve
    \/ GkrTamperRoundPoly
    \/ GkrTamperLastRound
    \/ GkrCallVerify

SpecGkr == InitGkr /\ [][NextGkr]_vars

\* C1: for every layered circuit and input, prove completes and verify returns
\* true on the proof it returned.
C1_HonestProofVerifies ==
    (gkr.pc \in {"prove_panic", "verified"} /\ ~gkr.tampered) => gkr.verdict = "true"

\* the multi-layer part of C1: on circuits of the canonical shape with two or
\* more layers the honest proof is accepted
GkrCanonicalDeepAccepted ==
    (gkr.pc \in {"prove_panic", "verified"} /\ ~gkr.tampered
       /\ Len(gkr.circuit) >= 2 /\ IsCanonical(gkr.circuit))
    => gkr.verdict = "true"

\* the layer polynomial at the sumcheck challenges from the supplied values:
\* add_poly(b, c)*(wb + wc) + mul_poly(b, c)*(wb*wc)
LayerPolynomialAt(add_poly, mul_poly, challenges, wb, wc) ==
    FAdd(FMul(evaluation(add_poly, challenges).value, FAdd(wb, wc)),
         FMul(evaluation(mul_poly, challenges).value, FMul(wb, wc)))

\* for the sumcheck proofs from i on (counted from 1, i >= 2): the final
\* sub-claim the verifier derives, the value of the layer polynomial, with
\* r_b, r_c, alpha and beta of the layer before in last, and the state of the
\* GKR transcript before the proof is absorbed
RECURSIVE GkrSubClaimsFrom(_, _, _, _, _, _)
GkrSubClaimsFrom(circuit, proof, i, last, transcript, env) ==
    IF i > Len(proof.sumcheck_proofs) THEN <<>>
    ELSE
    Let(verify_partial(proof.sumcheck_proofs[i], env), LAMBDA sub :
    Let(evaluate_challenge_into_field(sub.env,
            commit(transcript, SumcheckProofToBytes(proof.sumcheck_proofs[i]))), LAMBDA alph :
    Let(evaluate_challenge_into_field(alph.env, alph.transcript), LAMBDA bta :
    Let(add_mult_mle(circuit, i - 1), LAMBDA mles :
        <<[sum |-> sub.sum, before |-> transcript,
           expected |-> LayerPolynomialAt(alpha_beta(mles.add_mle, last),
                                          alpha_beta(mles.mult_mle, last),
                                          sub.challenges, proof.wb_s[i], proof.wc_s[i])]>>
        \o GkrSubClaimsFrom(circuit, proof, i + 1,
               [rb |-> SubSeq(sub.challenges, 1, Len(sub.challenges) \div 2),
                rc |-> SubSeq(sub.challenges, Len(sub.challenges) \div 2 + 1,
                              Len(sub.challenges)),
                alpha |-> alph.value, beta |-> bta.value],
               bta.transcript, bta.env)))))

\* the same for every sumcheck proof of an accepted run, the first included,
\* with the digests the run was given
GkrSubClaims(circuit, proof, orc) ==
    Let(evaluate_n_challenge_into_field(Env(orc, <<>>, 0),
            commit(TranscriptNew, to_bytes(proof.w_0_mle)), proof.w_0_mle.n_vars), LAMBDA n_r :
    Let(verify_partial(proof.sumcheck_proofs[1], n_r.env), LAMBDA sub :
    Let(evaluate_challenge_into_field(sub.env,
            commit(n_r.transcript, SumcheckProofToBytes(proof.sumcheck_proofs[1]))),
        LAMBDA alpha :
    Let(evaluate_challenge_into_field(alpha.env, alpha.transcript), LAMBDA beta :
    Let(add_mult_mle(circuit, 0), LAMBDA mles :
        <<[sum |-> sub.sum, before |-> n_r.transcript,
           expected |-> LayerPolynomialAt(
                            partial_evaluations(mles.add_mle, n_r.values,
                                                Repeat(0, Len(n_r.values))),
                            partial_evaluations(mles.mult_mle, n_r.values,
                                                Repeat(0, Len(n_r.values))),
                            sub.challenges, proof.wb_s[1], proof.wc_s[1])]>>
        \o GkrSubClaimsFrom(circuit, proof, 2,
               [rb |-> SubSeq(sub.challenges, 1, Len(sub.challenges) \div 2),
                rc |-> SubSeq(sub.challenges, Len(sub.challenges) \div 2 + 1,
                              Len(sub.challenges)),
                alpha |-> alpha.value, beta |-> beta.value],
               beta.transcript, beta.env))))))

GkrSubClaimsMatch ==
    \A i \in 1..Len(gkr.proof.sumcheck_proofs) :
        GkrSubClaims(gkr.circuit, gkr.proof, oracle)[i].sum
            = GkrSubClaims(gkr.circuit, gkr.proof, oracle)[i].expected

\* C22: GKRProtocol::verify accepts only if, for every layer's sumcheck
\* proof, the first and every later one, the final sub-claim of that sumcheck
\* equals the layer polynomial evaluated at the sumcheck challenges (b, c)
\* from the supplied values:
\* (alpha*add(r_b,b,c) + beta*add(r_c,b,c))*(w_b + w_c)
\*   + (alpha*mul(r_b,b,c) + beta*mul(r_c,b,c))*(w_b*w_c).
C22_AcceptedSubClaimsMatchLayers ==
    (gkr.pc = "verified" /\ gkr.verdict = "true") => GkrSubClaimsMatch

\* the check verify makes: the sub-claim of the first sumcheck proof
GkrFirstSubClaimMatches ==
    (gkr.pc = "verified" /\ gkr.verdict = "true") =>
        GkrSubClaims(gkr.circuit, gkr.proof, oracle)[1].sum
            = GkrSubClaims(gkr.circuit, gkr.proof, oracle)[1].expected

\* the sub-claims of the prover's own proof match on every layer
GkrHonestSubClaimsMatch ==
    (gkr.pc = "verified" /\ gkr.verdict = "true" /\ ~gkr.tampered) => GkrSubClaimsMatch

\* the state hashed for the first round challenge of a sumcheck proof whose
\* transcript started from the state transcript: the claimed sum and the
\* first round polynomial are absorbed
FirstRoundState(proof, transcript) ==
    commit(commit(transcript, convert_field_to_byte(proof.sum)),
           UnivariateToBytes(proof.round_polys[1]))

\* C23: within GKR prove and verify, every round challenge of a layer's
\* sumcheck is derived from a transcript state that includes everything the
\* enclosing GKR transcript absorbed before that sumcheck (the W_0 bytes and
\* the earlier layers' sumcheck proofs), not only that sumcheck's own claimed
\* sum and round polynomials: the state hashed for the first round of each
\* layer's sumcheck is the GKR transcript's state followed by the claimed sum
\* and the round polynomial.
C23_LayerChallengesFromGkrTranscript ==
    (gkr.pc = "verified" /\ gkr.verdict = "true" /\ ~gkr.tampered) =>
        \A i \in 1..Len(gkr.proof.sumcheck_proofs) :
            gkr.proof.sumcheck_proofs[i].round_polys # <<>> =>
                FirstRoundState(gkr.proof.sumcheck_proofs[i],
                                GkrSubClaims(gkr.circuit, gkr.proof, oracle)[i].before)
                    \in DOMAIN oracle

\* what prove_partial and verify_partial hash: a state that holds the
\* sumcheck's own claimed sum and round polynomial and nothing else
LayerChallengesFromFreshTranscript ==
    (gkr.pc = "verified" /\ gkr.verdict = "true" /\ ~gkr.tampered) =>
        \A i \in 1..Len(gkr.proof.sumcheck_proofs) :
            gkr.proof.sumcheck_proofs[i].round_polys # <<>> =>
                FirstRoundState(gkr.proof.sumcheck_proofs[i], TranscriptNew)
                    \in DOMAIN oracle

\* C9: when a round polynomial fails g(0) + g(1) = claim, verify returns false.
C9_FailedRoundCheckReturnsFalse ==
    (gkr.pc = "verified" /\ gkr.at = "round_check") => gkr.verdict = "false"

(***************************************************************************)
(* A succinct GKR session: a circuit of the canonical shape, an input and  *)
(* a trusted setup are fixed, prove runs, one of the two KZG openings may  *)
(* be altered, verify runs.                                                *)
(***************************************************************************)
SgkrStart == [pc |-> "none", circuit |-> <<>>, input |-> <<>>, tau |-> Null,
              commitment |-> 0, proof |-> Null, tampered |-> FALSE, verdict |-> "none",
              at |-> "none", kzg_checked |-> FALSE, verify_rb |-> FALSE, verify_rc |-> FALSE]

SgkrOthersUnchanged == UNCHANGED <<ml, sc, mcs, kzg, gkr, collapse, circ, fs, dense, merlin>>

SgkrSetup ==
    /\ sgkr.pc = "none"
    /\ \E depth \in 1..MaxLayers :
         \E circuit \in CanonicalCircuits(depth) :
           \E input \in SeqsOfLen(Vals, Pow2(depth)) :
             \E n \in depth..MaxSetupVars :
               \E eval_points \in SeqsOfLen(Points, n) :
                 sgkr' = [sgkr EXCEPT !.pc = "ready", !.circuit = circuit, !.input = input,
                                      !.tau = setup(eval_points)]
    /\ UNCHANGED oracle
    /\ SgkrOthersUnchanged

SgkrCallProve ==
    /\ sgkr.pc = "ready"
    /\ \E run \in Outcomes(LAMBDA env : SuccintProve(sgkr.circuit, sgkr.input, sgkr.tau, env),
                           oracle, <<>>, MaxGkrFresh) :
         /\ oracle' = run.env.oracle
         /\ sgkr' = IF IsPanic(run)
                      THEN [sgkr EXCEPT !.pc = "prove_panic", !.verdict = "panic", !.at = "prove"]
                    ELSE [sgkr EXCEPT !.pc = "proved", !.proof = run.proof,
                                      !.commitment = run.commitment]
    /\ SgkrOthersUnchanged

\* the generator is added to element k of an opening's proofs, or (k = 0) one
\* to its evaluation
TamperOpening(opening, k) ==
    IF k = 0 THEN [opening EXCEPT !.evaluation = FAdd(@, 1)]
    ELSE [opening EXCEPT !.proofs[k] = FAdd(@, 1)]

SgkrTamperOpening ==
    /\ sgkr.pc = "proved"
    /\ ~sgkr.tampered
    /\ \/ \E k \in 0..Len(sgkr.proof.proof_wb_opening.proofs) :
            sgkr' = [sgkr EXCEPT !.tampered = TRUE,
                                 !.proof.proof_wb_opening = TamperOpening(@, k)]
       \/ \E k \in 0..Len(sgkr.proof.proof_wc_opening.proofs) :
            sgkr' = [sgkr EXCEPT !.tampered = TRUE,
                                 !.proof.proof_wc_opening = TamperOpening(@, k)]
    /\ UNCHANGED oracle
    /\ SgkrOthersUnchanged

SgkrCallVerify ==
    /\ sgkr.pc = "proved"
    /\ \E run \in Outcomes(LAMBDA env : SuccintVerify(sgkr.circuit, sgkr.commitment,
                                                      sgkr.proof, sgkr.tau, env),
                           oracle, <<>>, MaxGkrFresh) :
         /\ oracle' = run.env.oracle
         /\ sgkr' = [sgkr EXCEPT !.pc = "verified", !.verdict = run.verdict, !.at = run.at,
                                 !.kzg_checked = run.kzg_checked,
                                 !.verify_rb = run.verify_rb, !.verify_rc = run.verify_rc]
    /\ SgkrOthersUnchanged

InitSgkr ==
    /\ ml = MlIdle
    /\ oracle = OracleIdle
    /\ sc = ScIdle
    /\ mcs = McsIdle
    /\ kzg = KzgIdle
    /\ gkr = GkrIdle
    /\ sgkr = SgkrStart
    /\ collapse = CollapseIdle
    /\ circ = CircIdle
    /\ fs = FsIdle
    /\ dense = DenseIdle
    /\ merlin = MerlinIdle

NextSgkr ==
    \/ SgkrSetup
    \/ SgkrCallProve
    \/ SgkrTamperOpening
    \/ SgkrCallVerify

SpecSgkr == InitSgkr /\ [][NextSgkr]_vars

\* C2: when the KZG verification of the r_b opening or of the r_c opening
\* fails, verify returns false.
C2_FailedOpeningRejected ==
    (sgkr.pc = "verified" /\ sgkr.kzg_checked /\ ~(sgkr.verify_rb /\ sgkr.verify_rc))
    => sgkr.verdict = "false"

\* C3: for a circuit of the canonical shape and a setup of enough variables,
\* prove completes and verify returns true on what it returned.
C3_HonestSuccintProofVerifies ==
    (sgkr.pc \in {"prove_panic", "verified"} /\ ~sgkr.tampered) => sgkr.verdict = "true"

\* the part of C3 for two or more layers
SgkrDeepAccepted ==
    (sgkr.pc \in {"prove_panic", "verified"} /\ ~sgkr.tampered /\ Len(sgkr.circuit) >= 2)
    => sgkr.verdict = "true"

(***************************************************************************)
(* A collapse session: a multilinear m on n variables, a point r of F^n    *)
(* and an order of the n variables are fixed.  The variables are collapsed *)
(* in that order, one partial_evaluation at a time or by a single call of  *)
(* partial_evaluations, and m is then evaluated at r.                      *)
(*   collapse.order  the original indices of the variables, in the order   *)
(*                   they are collapsed                                    *)
(*   collapse.cur    the polynomial left after collapse.done collapses     *)
(*   collapse.value  what evaluation(m, r) returned                        *)
(***************************************************************************)
Orders(n) == {order \in SeqsOfLen(0..(n - 1), n) :
                 \A i \in 1..n : \A j \in 1..n : i # j => order[i] # order[j]}

\* the index variable order[step] has once the variables collapsed before it
\* are gone: one less for each of them that stood to its left
RelabeledIndex(order, step) ==
    order[step] - Cardinality({t \in 1..(step - 1) : order[t] < order[step]})

\* each variable is paired with its own component of r
OrderedPoints(r, order) == Collect([step \in 1..Len(order) |-> r[order[step] + 1]])

RelabeledIndices(order) == Collect([step \in 1..Len(order) |-> RelabeledIndex(order, step)])

CollapseStart(m, r, order) ==
    [pc |-> "start", m |-> m, r |-> r, order |-> order, cur |-> m, done |-> 0,
     value |-> Null]

CollapseOthersUnchanged == UNCHANGED <<ml, oracle, sc, mcs, kzg, gkr, sgkr, circ, fs, dense, merlin>>

CollapseStep ==
    /\ collapse.pc \in {"start", "stepping"}
    /\ collapse.done < Len(collapse.order)
    /\ collapse' = [collapse EXCEPT
           !.pc = IF collapse.done + 1 = Len(collapse.order) THEN "collapsed" ELSE "stepping",
           !.cur = partial_evaluation(collapse.cur,
                                      collapse.r[collapse.order[collapse.done + 1] + 1],
                                      RelabeledIndex(collapse.order, collapse.done + 1)),
           !.done = @ + 1]
    /\ CollapseOthersUnchanged

CollapseAtOnce ==
    /\ collapse.pc = "start"
    /\ collapse' = [collapse EXCEPT
           !.pc = "collapsed",
           !.cur = partial_evaluations(collapse.m,
                                       OrderedPoints(collapse.r, collapse.order),
                                       RelabeledIndices(collapse.order)),
           !.done = Len(collapse.order)]
    /\ CollapseOthersUnchanged

CollapseCallEvaluation ==
    /\ collapse.pc = "collapsed"
    /\ collapse' = [collapse EXCEPT !.pc = "evaluated",
                                    !.value = evaluation(collapse.m, collapse.r)]
    /\ CollapseOthersUnchanged

InitCollapse ==
    /\ ml = MlIdle
    /\ oracle = OracleIdle
    /\ sc = ScIdle
    /\ mcs = McsIdle
    /\ kzg = KzgIdle
    /\ gkr = GkrIdle
    /\ sgkr = SgkrIdle
    /\ \E n \in 0..MaxCollapseVars :
         \E evaluations \in SeqsOfLen(Vals, Pow2(n)) :
           \E r \in SeqsOfLen(Chal, n) :
             \E order \in Orders(n) :
               collapse = CollapseStart(MultilinearNew(evaluations), r, order)
    /\ circ = CircIdle
    /\ fs = FsIdle
    /\ dense = DenseIdle
    /\ merlin = MerlinIdle

NextCollapse ==
    \/ CollapseStep
    \/ CollapseAtOnce
    \/ CollapseCallEvaluation

SpecCollapse == InitCollapse /\ [][NextCollapse]_vars

\* C12: for every multilinear M with n variables and every r in F^n, collapsing
\* all n variables by repeated partial evaluation, in any order of the
\* variables (each at its relabeled index and with its own component of r),
\* yields the single value M.evaluation(r).
C12_CollapseInAnyOrderIsEvaluation ==
    collapse.pc = "evaluated"
    => /\ ~IsPanic(collapse.value)
       /\ IsMultilinear(collapse.cur)
       /\ collapse.cur.n_vars = 0
       /\ collapse.cur.evaluations = <<collapse.value.value>>

\* three variables collapsed last-to-first at a point that is not Boolean in
\* any component, on a table that is not symmetric in its variables
C12_Witness ==
    /\ collapse.pc = "evaluated"
    /\ collapse.order = <<2, 0, 1>>
    /\ collapse.r = <<2, 1, 2>>
    /\ collapse.m.evaluations = <<0, 1, 0, 0, 1, 1, 0, 1>>
    /\ IsMultilinear(collapse.cur)
    /\ ~IsPanic(collapse.value)

(***************************************************************************)
(* A circuit session: a circuit and an input are fixed and one of          *)
(* Circuit::evaluation and Circuit::add_mult_mle is called                 *)
(* (circuit/src/circuit.rs, the same steps as gkr/src/circuit.rs).         *)
(*   circ.op, circ.layer_index   the call and its argument                 *)
(*   circ.ret                    what it returned, or Panic                *)
(***************************************************************************)
\* every layer of count gates whose inputs are below width
FreeLayers(count, width) ==
    {Collect([g \in 1..count |-> Gate(types[g], lefts[g], rights[g])]) :
         types \in SeqsOfLen(GateTypes, count),
         lefts \in SeqsOfLen(0..(width - 1), count),
         rights \in SeqsOfLen(0..(width - 1), count)}

\* two layers of one gate each: the lower layer is narrower than 2^1 gates
NarrowCircuits ==
    {<<<<Gate(upper, 0, 0)>>, <<Gate(lower, 0, 1)>>>> : upper \in GateTypes, lower \in GateTypes}

\* the circuit and the input of test_circuit_evaluation_3
ScenarioCircuit ==
    <<<<Gate("Add", 0, 1)>>,
      <<Gate("Add", 0, 1), Gate("Mul", 2, 3)>>,
      <<Gate("Add", 0, 1), Gate("Mul", 2, 3), Gate("Mul", 4, 5), Gate("Mul", 6, 7)>>>>

ScenarioInput == <<2, 3, 1, 4, 1, 2, 3, 4>>

CircStart(circuit, input) ==
    [pc |-> "ready", circuit |-> circuit, input |-> input, op |-> "none", layer_index |-> 0,
     ret |-> Null]

CircOthersUnchanged ==
    UNCHANGED <<ml, oracle, sc, mcs, kzg, gkr, sgkr, collapse, fs, dense, merlin>>

CircCallEvaluation ==
    /\ circ.pc = "ready"
    /\ circ' = [circ EXCEPT !.pc = "called", !.op = "evaluation",
                            !.ret = CircuitEvaluation(circ.circuit, circ.input)]
    /\ CircOthersUnchanged

CircCallAddMultMle ==
    /\ circ.pc = "ready"
    /\ \E layer_index \in 0..(Len(circ.circuit) - 1) :
         circ' = [circ EXCEPT !.pc = "called", !.op = "add_mult_mle",
                              !.layer_index = layer_index,
                              !.ret = add_mult_mle(circ.circuit, layer_index)]
    /\ CircOthersUnchanged

\* the first steps of GKRProtocol::prove: the circuit is evaluated and the
\* wiring tables of every layer are built
CircCallEvaluationAndTables ==
    /\ circ.pc = "ready"
    /\ circ' = [circ EXCEPT !.pc = "called", !.op = "evaluation_and_tables",
                            !.ret = [evaluation |-> CircuitEvaluation(circ.circuit, circ.input),
                                     tables |-> Collect([i \in 1..Len(circ.circuit) |->
                                                   add_mult_mle(circ.circuit, i - 1)])]]
    /\ CircOthersUnchanged

\* one gate over two inputs above two gates over four inputs, any wiring
FreeTwoLayerCircuits == {<<upper, lower>> : upper \in FreeLayers(1, 2), lower \in FreeLayers(2, 4)}

FreeTwoLayerInput == <<1, 2, 3, 4>>

InitCirc ==
    /\ ml = MlIdle
    /\ oracle = OracleIdle
    /\ sc = ScIdle
    /\ mcs = McsIdle
    /\ kzg = KzgIdle
    /\ gkr = GkrIdle
    /\ sgkr = SgkrIdle
    /\ collapse = CollapseIdle
    /\ \/ \E count \in 1..MaxCircGates : \E bits \in 1..MaxCircInputBits :
            \E layer \in FreeLayers(count, Pow2(bits)) :
              \E input \in SeqsOfLen(Vals, Pow2(bits)) :
                circ = CircStart(<<layer>>, input)
       \/ \E depth \in 1..MaxCircLayers :
            \E circuit \in CanonicalCircuits(depth) :
              \E input \in SeqsOfLen(Vals, Pow2(depth)) :
                circ = CircStart(circuit, input)
       \/ \E circuit \in NarrowCircuits :
            \E input \in SeqsOfLen(Vals, 2) :
              circ = CircStart(circuit, input)
       \/ circ = CircStart(ScenarioCircuit, ScenarioInput)
       \/ \E circuit \in FreeTwoLayerCircuits : circ = CircStart(circuit, FreeTwoLayerInput)
    /\ fs = FsIdle
    /\ dense = DenseIdle
    /\ merlin = MerlinIdle

NextCirc ==
    \/ CircCallEvaluation
    \/ CircCallAddMultMle
    \/ CircCallEvaluationAndTables

SpecCirc == InitCirc /\ [][NextCirc]_vars

\* C15: for an L-layer circuit and input x, Circuit::evaluation returns L+1
\* value vectors in which the last vector is x, vector i (0 <= i < L) holds for
\* each gate j of layer i the sum (Add) or product (Mul) of the two entries of
\* vector i+1 named by the gate's inputs, and vector 0 is the public output
\* (33 for the three-layer scenario circuit on input (2,3,1,4,1,2,3,4)).
C15_EvaluationIsLayerByLayer ==
    circ.op = "evaluation"
    => /\ ~IsPanic(circ.ret)
       /\ Len(circ.ret.layers) = Len(circ.circuit) + 1
       /\ circ.ret.layers[Len(circ.circuit) + 1] = circ.input
       /\ \A i \in 1..Len(circ.circuit) :
            /\ Len(circ.ret.layers[i]) = Len(circ.circuit[i])
            /\ \A j \in 1..Len(circ.circuit[i]) :
                 circ.ret.layers[i][j] =
                   IF circ.circuit[i][j].gate_type = "Add"
                     THEN FAdd(circ.ret.layers[i + 1][circ.circuit[i][j].inputs[1] + 1],
                               circ.ret.layers[i + 1][circ.circuit[i][j].inputs[2] + 1])
                   ELSE FMul(circ.ret.layers[i + 1][circ.circuit[i][j].inputs[1] + 1],
                             circ.ret.layers[i + 1][circ.circuit[i][j].inputs[2] + 1])
       /\ (circ.circuit = ScenarioCircuit /\ circ.input = ScenarioInput)
            => circ.ret.layers[1] = <<33 % P>>

\* the scenario circuit has been evaluated
C15_Witness ==
    /\ circ.op = "evaluation"
    /\ circ.circuit = ScenarioCircuit
    /\ circ.input = ScenarioInput
    /\ ~IsPanic(circ.ret)
    /\ Len(circ.ret.layers) = 4

\* the number of entries of the vector the gates of layer i (counted from 0) read
CircWidthBelow(i) ==
    IF i + 1 = Len(circ.circuit) THEN Len(circ.input) ELSE Len(circ.circuit[i + 2])

\* a = log2 of the number of gates of layer i, b = log2 of the width below
CircA(i) == Log2Floor(Len(circ.circuit[i + 1]))

CircB(i) == Log2Floor(CircWidthBelow(i))

\* the width the gate index is written with: a, or 1 for the single output of
\* layer 0, which is padded
CircGateBits(i) == IF i = 0 /\ CircA(i) = 0 THEN 1 ELSE CircA(i)

\* layer i has 2^a gates over 2^b inputs and every gate input is in range
CircShapeInRange(i) ==
    /\ Len(circ.circuit[i + 1]) = Pow2(CircA(i))
    /\ CircWidthBelow(i) = Pow2(CircB(i))
    /\ \A j \in 1..Len(circ.circuit[i + 1]) : \A side \in 1..2 :
         circ.circuit[i + 1][j].inputs[side] < CircWidthBelow(i)

\* the bit concatenation of j (width a), u (width b), v (width b), most
\* significant bit first, for gate j (counted from 1 here) of layer i
CircFlatIndex(i, j) ==
    (j - 1) * Pow2(2 * CircB(i)) + circ.circuit[i + 1][j].inputs[1] * Pow2(CircB(i))
        + circ.circuit[i + 1][j].inputs[2]

\* table holds 1 exactly at the flat indices of the gates of gate_type of layer i
CircTableMarks(table, i, gate_type) ==
    /\ table.n_vars = CircGateBits(i) + 2 * CircB(i)
    /\ Len(table.evaluations) = Pow2(CircGateBits(i) + 2 * CircB(i))
    /\ \A k \in 1..Len(table.evaluations) :
         table.evaluations[k] =
           IF \E j \in 1..Len(circ.circuit[i + 1]) :
                  /\ circ.circuit[i + 1][j].gate_type = gate_type
                  /\ CircFlatIndex(i, j) = k - 1
             THEN 1 ELSE 0

CircWiringAsStated ==
    /\ ~IsPanic(circ.ret)
    /\ CircTableMarks(circ.ret.add_mle, circ.layer_index, "Add")
    /\ CircTableMarks(circ.ret.mult_mle, circ.layer_index, "Mul")
    /\ \A k \in 1..Len(circ.ret.add_mle.evaluations) :
         ~(circ.ret.add_mle.evaluations[k] = 1 /\ circ.ret.mult_mle.evaluations[k] = 1)

\* C16: for any layer i with 2^a gates over 2^b inputs (any circuit shape whose
\* indices are in range), add_mult_mle(i) returns two multilinears on a + 2b
\* variables (3 for layer 0 with a single padded output) in which every Add
\* (Mul) gate j with inputs (u, v) sets to 1 exactly the entry of add_i (mul_i)
\* whose index is the bit concatenation of j, u, v; all other entries are 0 and
\* no index is set in both tables.
C16_WiringTablesForAnyShape ==
    (circ.op = "add_mult_mle" /\ CircShapeInRange(circ.layer_index)) => CircWiringAsStated

\* the part of C16 that holds: circuits of the canonical shape, where layer i
\* has 2^i gates over 2^(i+1) inputs
CircCanonicalWiringAsStated ==
    (circ.op = "add_mult_mle" /\ IsCanonical(circ.circuit)
       /\ Len(circ.input) = Pow2(Len(circ.circuit)))
    => CircWiringAsStated

(***************************************************************************)
(* A transcript session: two transcripts are created with new() and        *)
(* commit and challenge are called on each, in any interleaving.           *)
(*   fs[i].hasher    the state of transcript i                             *)
(*   fs[i].calls     the calls made on it: <<"commit", data>> or           *)
(*                   <<"challenge">>                                       *)
(*   fs[i].outs      the challenges it returned                            *)
(*   fs[i].inputs    for each challenge, the previous digest (none before  *)
(*                   the first) followed by the bytes committed since      *)
(*   fs[i].pending   the same for the challenge to come                    *)
(***************************************************************************)
FsStart == [hasher |-> TranscriptNew, calls |-> <<>>, outs |-> <<>>, inputs |-> <<>>,
            pending |-> <<>>]

FsData == UNION {SeqsOfLen(Vals, n) : n \in 0..MaxFsBytes}

FsOthersUnchanged == UNCHANGED <<ml, sc, mcs, kzg, gkr, sgkr, collapse, circ, dense, merlin>>

FsCommit ==
    /\ \E i \in 1..2 : \E new_data \in FsData :
         /\ Len(fs[i].calls) < MaxFsCalls
         /\ fs' = [fs EXCEPT ![i] =
                     [@ EXCEPT !.hasher = commit(fs[i].hasher, new_data),
                               !.calls = Append(@, <<"commit", new_data>>),
                               !.pending = @ \o new_data]]
    /\ UNCHANGED oracle
    /\ FsOthersUnchanged

FsChallenge ==
    /\ \E i \in 1..2 :
         /\ Len(fs[i].calls) < MaxFsCalls
         /\ \E run \in Outcomes(LAMBDA env : challenge(env, fs[i].hasher), oracle, <<>>, 1) :
              /\ oracle' = run.env.oracle
              /\ fs' = [fs EXCEPT ![i] =
                          [@ EXCEPT !.hasher = run.transcript,
                                    !.calls = Append(@, <<"challenge">>),
                                    !.outs = Append(@, run.value),
                                    !.inputs = Append(@, fs[i].pending),
                                    !.pending = <<run.value>>]]
    /\ FsOthersUnchanged

InitFs ==
    /\ ml = MlIdle
    /\ oracle = OracleIdle
    /\ sc = ScIdle
    /\ mcs = McsIdle
    /\ kzg = KzgIdle
    /\ gkr = GkrIdle
    /\ sgkr = SgkrIdle
    /\ collapse = CollapseIdle
    /\ circ = CircIdle
    /\ fs = <<FsStart, FsStart>>
    /\ dense = DenseIdle
    /\ merlin = MerlinIdle

NextFs ==
    \/ FsCommit
    \/ FsChallenge

SpecFs == InitFs /\ [][NextFs]_vars

\* C17: challenge returns the digest of everything absorbed since the
\* transcript was last reset and leaves the transcript as a fresh hash state
\* that has absorbed exactly the returned digest, so that each later challenge
\* is the hash of the previous digest followed by the bytes committed in
\* between, and two transcripts given the same sequence of commit and
\* challenge calls return the same challenges.
C17_ChallengeChainsDigests ==
    /\ \A i \in 1..2 :
         /\ fs[i].hasher = fs[i].pending
         /\ (fs[i].calls # <<>> /\ fs[i].calls[Len(fs[i].calls)] = <<"challenge">>)
              => fs[i].hasher = <<fs[i].outs[Len(fs[i].outs)]>>
         /\ \A k \in 1..Len(fs[i].outs) :
              /\ fs[i].inputs[k] \in DOMAIN oracle
              /\ fs[i].outs[k] = oracle[fs[i].inputs[k]]
    /\ fs[1].calls = fs[2].calls => fs[1].outs = fs[2].outs

\* both transcripts went through challenge, commit of one byte, challenge
C17_Witness ==
    /\ fs[1].calls = <<<<"challenge">>, <<"commit", <<1>>>>, <<"challenge">>>>
    /\ fs[2].calls = fs[1].calls
    /\ Len(fs[1].outs) = 2
    /\ fs[1].outs[1] # fs[1].outs[2]
    /\ fs[1].inputs[2] = <<fs[1].outs[1], 1>>

\* consecutive blocks of 2*half indices from 0 on, each giving its lower half
\* paired in order with its upper half
PairsByBlocks(pairs, blocks, half) ==
    /\ Len(pairs) = blocks * half
    /\ \A b \in 0..(blocks - 1) : \A y \in 0..(half - 1) :
           pairs[b * half + y + 1] = <<b * 2 * half + y, b * 2 * half + half + y>>

\* C28 as stated: for partial evaluation at variable_index v on a table of
\* any size, the (i, j) pairs are enumerated block by block over consecutive
\* input blocks of size 2^(v+1), each block contributing its lower half
\* paired in order with its upper half.
C28_PairsByBlocksOfTwoToVPlusOne ==
    (ml.op = "pick_pairs_with_random_index" /\ ~IsPanic(ml.ret)) =>
        PairsByBlocks(ml.ret.pairs, ml.args[1] \div Pow2(ml.args[2] + 1), Pow2(ml.args[2]))

\* C28 amended: for an even table size N and variable_index v < N/2 the
\* pairs are enumerated over 2^v consecutive blocks of size 2h from index 0
\* on, h = floor(floor(N / 2^v) / 2), each block contributing its lower half
\* paired in order with its upper half; for N = 2^n and v < n the block size
\* is 2^(n-v). Any other call aborts.
C28_PairsByBlocksOfTableOverTwoToV ==
    ml.op = "pick_pairs_with_random_index" =>
        IF ml.args[1] % 2 = 0 /\ ml.args[2] < ml.args[1] \div 2
          THEN /\ ~IsPanic(ml.ret)
               /\ PairsByBlocks(ml.ret.pairs, Pow2(ml.args[2]),
                                (ml.args[1] \div Pow2(ml.args[2])) \div 2)
               /\ (\E n \in 1..MaxVars : ml.args[1] = Pow2(n) /\ ml.args[2] < n) =>
                      PairsByBlocks(ml.ret.pairs, Pow2(ml.args[2]),
                                    Pow2(Log2Floor(ml.args[1]) - ml.args[2] - 1))
        ELSE IsPanic(ml.ret)

\* eight entries, variable 1: the blocks 0..3 and 4..7
C28_Witness ==
    /\ ml.op = "pick_pairs_with_random_index"
    /\ ml.args = <<8, 1>>
    /\ ml.ret = [pairs |-> <<<<0, 2>>, <<1, 3>>, <<4, 6>>, <<5, 7>>>>]

(***************************************************************************)
(* DenseUnivariatePolynomial                                               *)
(* (polynomial/src/univariate/dense_univariate.rs): a value is             *)
(* [coefficients |-> the vector], lowest degree first.                     *)
(***************************************************************************)
DenseNew(coefficients) == [coefficients |-> coefficients]

DenseZero == DenseNew(<<>>)

is_zero(self) == self.coefficients = <<>>

\* #[derive(PartialEq)]: the two vectors are compared as they are
DenseEq(self, other) == self.coefficients = other.coefficients

\* truncate after the last non-zero entry; clear when there is none
RECURSIVE remove_trailing_and_redundant_zeros(_)
remove_trailing_and_redundant_zeros(coeff) ==
    IF coeff = <<>> THEN <<>>
    ELSE IF coeff[Len(coeff)] # 0 THEN coeff
    ELSE remove_trailing_and_redundant_zeros(SubSeq(coeff, 1, Len(coeff) - 1))

remove_leading_zeros(self) == DenseNew(remove_trailing_and_redundant_zeros(self.coefficients))

degree(self) ==
    IF remove_leading_zeros(self).coefficients = <<>> THEN 0
    ELSE Len(remove_leading_zeros(self).coefficients) - 1

\* coefficients.last(): None on the empty vector
leading_coefficient(self) ==
    IF self.coefficients = <<>> THEN Null
    ELSE [value |-> self.coefficients[Len(self.coefficients)]]

\* other.coefficients.get(i).unwrap_or(&F::zero()), i counted from 1 here
DenseGetOrZero(coefficients, i) == IF i <= Len(coefficients) THEN coefficients[i] ELSE 0

\* impl Add: the operand of the larger degree (self on a tie) gives the length
DenseAdd(self, other) ==
    IF degree(self) >= degree(other)
      THEN DenseNew(Collect([i \in 1..Len(self.coefficients) |->
                       FAdd(self.coefficients[i], DenseGetOrZero(other.coefficients, i))]))
    ELSE DenseNew(Collect([i \in 1..Len(other.coefficients) |->
                     FAdd(other.coefficients[i], DenseGetOrZero(self.coefficients, i))]))

\* for (i, div_coeff) in divisor.iter_with_index():
\*     remainder[cur_q_degree + i] -= cur_q_coeff * div_coeff
\* from index i (counted from 0) on; indexing past the remainder aborts
RECURSIVE DivideSubtract(_, _, _, _, _)
DivideSubtract(remainder, divisor, cur_q_degree, cur_q_coeff, i) ==
    IF i >= Len(divisor.coefficients) THEN remainder
    ELSE IF cur_q_degree + i >= Len(remainder.coefficients) THEN Panic
    ELSE DivideSubtract(
             DenseNew([remainder.coefficients EXCEPT
                          ![cur_q_degree + i + 1] =
                              FSub(@, FMul(cur_q_coeff, divisor.coefficients[i + 1]))]),
             divisor, cur_q_degree, cur_q_coeff, i + 1)

\* the while loop of divide_with_q_and_r
RECURSIVE DivideLoop(_, _, _, _)
DivideLoop(quotient, remainder, divisor, divisor_leading_inv) ==
    IF is_zero(remainder) \/ degree(remainder) < degree(divisor)
      THEN [quotient |-> DenseNew(quotient), remainder |-> remainder]
    ELSE Let(DivideSubtract(remainder, divisor, degree(remainder) - degree(divisor),
                            FMul(remainder.coefficients[Len(remainder.coefficients)],
                                 divisor_leading_inv), 0), LAMBDA subtracted :
         IF IsPanic(subtracted) THEN Panic
         ELSE DivideLoop([quotient EXCEPT
                             ![degree(remainder) - degree(divisor) + 1] =
                                 FMul(remainder.coefficients[Len(remainder.coefficients)],
                                      divisor_leading_inv)],
                         remove_leading_zeros(subtracted), divisor, divisor_leading_inv))

\* Some((quotient, remainder)), or Panic: the zero divisor, and
\* inverse().unwrap() on a leading coefficient that is zero
divide_with_q_and_r(self, divisor) ==
    IF is_zero(self) THEN [quotient |-> DenseZero, remainder |-> DenseZero]
    ELSE IF is_zero(divisor) THEN Panic
    ELSE IF degree(self) < degree(divisor) THEN [quotient |-> DenseZero, remainder |-> self]
    ELSE IF leading_coefficient(divisor).value = 0 THEN Panic
    ELSE DivideLoop(Repeat(0, degree(self) - degree(divisor) + 1), self, divisor,
                    FInv(leading_coefficient(divisor).value))

\* impl Mul: the result has degree(self) + degree(rhs) + 1 entries
DenseMulEntry(self, rhs, k) ==
    SumSeq(Collect([i \in 1..(degree(self) + 1) |->
               IF k - (i - 1) >= 0 /\ k - (i - 1) <= degree(rhs)
                 THEN FMul(self.coefficients[i], rhs.coefficients[k - (i - 1) + 1])
               ELSE 0]))

DenseMul(self, rhs) ==
    IF is_zero(self) \/ is_zero(rhs) THEN DenseZero
    ELSE DenseNew(Collect([k \in 1..(degree(self) + degree(rhs) + 1) |->
                     DenseMulEntry(self, rhs, k - 1)]))

\* impl Neg
DenseNeg(self) ==
    DenseNew(Collect([i \in 1..Len(self.coefficients) |-> FNeg(self.coefficients[i])]))

\* impl Sub: self + (-other)
DenseSub(self, other) == DenseAdd(self, DenseNeg(other))

\* impl AddAssign: in place when degree(self) >= degree(rhs); otherwise the
\* sums over rhs are pushed onto a clone of self's vector
add_assign(self, rhs) ==
    IF degree(self) >= degree(rhs)
      THEN DenseNew(Collect([i \in 1..Len(self.coefficients) |->
                       FAdd(self.coefficients[i], DenseGetOrZero(rhs.coefficients, i))]))
    ELSE DenseNew(self.coefficients \o
                  Collect([i \in 1..Len(rhs.coefficients) |->
                      FAdd(rhs.coefficients[i], DenseGetOrZero(self.coefficients, i))]))

\* impl SubAssign: *self += -rhs
sub_assign(self, rhs) == add_assign(self, DenseNeg(rhs))

\* DenseUnivariatePolynomial::evaluate
DenseEvaluate(self, point) ==
    SumSeq(Collect([i \in 1..Len(self.coefficients) |->
               FMul(self.coefficients[i], FPow(point, i - 1))]))

\* the inner loop of dense_langrange_basis from j (counted from 1) on;
\* inverse().unwrap() aborts on two equal domain entries
RECURSIVE BasisElementLoop(_, _, _, _)
BasisElementLoop(domain, i, j, basis_element) ==
    IF j > Len(domain) THEN basis_element
    ELSE IF i = j THEN BasisElementLoop(domain, i, j + 1, basis_element)
    ELSE IF FSub(domain[i], domain[j]) = 0 THEN Panic
    ELSE BasisElementLoop(domain, i, j + 1,
             DenseMul(basis_element,
                      DenseMul(DenseNew(<<FNeg(domain[j]), 1>>),
                               DenseNew(<<FInv(FSub(domain[i], domain[j]))>>))))

BasisElement(domain, y_s, i) ==
    Let(BasisElementLoop(domain, i, 1, DenseNew(<<1>>)), LAMBDA basis_element :
        IF IsPanic(basis_element) THEN Panic
        ELSE DenseMul(basis_element, DenseNew(<<y_s[i]>>)))

\* Vec<DenseUnivariatePolynomial> as [basis |-> the vector], or Panic
dense_langrange_basis(domain, y_s) ==
    IF Len(domain) # Len(y_s) THEN Panic
    ELSE Let(Collect([i \in 1..Len(domain) |-> BasisElement(domain, y_s, i)]), LAMBDA basis :
             IF \E i \in 1..Len(basis) : IsPanic(basis[i]) THEN Panic
             ELSE [basis |-> basis])

\* .fold(DenseUnivariatePolynomial::new(vec![]), |acc, x| acc + x.clone())
RECURSIVE DenseFoldAdd(_, _, _)
DenseFoldAdd(acc, polys, i) ==
    IF i > Len(polys) THEN acc ELSE DenseFoldAdd(DenseAdd(acc, polys[i]), polys, i + 1)

DenseInterpolate(point_ys, point_xs) ==
    Let(dense_langrange_basis(point_xs, point_ys), LAMBDA langrange_poly_vec :
        IF IsPanic(langrange_poly_vec) THEN Panic
        ELSE DenseFoldAdd(DenseZero, langrange_poly_vec.basis, 1))

(***************************************************************************)
(* A dense univariate session: two coefficient vectors are fixed and one   *)
(* operation is called on them.                                            *)
(*   dense.a, dense.b   the operands                                       *)
(*   dense.op           the operation called                               *)
(*   dense.ret          what it returned, or Panic                         *)
(***************************************************************************)
DenseCoeffs == 0..MaxDenseCoeff

DenseVectors == UNION {SeqsOfLen(DenseCoeffs, n) : n \in 0..MaxDenseLen}

DenseStart(a, b) == [pc |-> "ready", a |-> DenseNew(a), b |-> DenseNew(b), op |-> "none",
                     ret |-> Null]

DenseOthersUnchanged ==
    UNCHANGED <<ml, oracle, sc, mcs, kzg, gkr, sgkr, collapse, circ, fs, merlin>>

DenseCall(op, ret) ==
    /\ dense.pc = "ready"
    /\ dense' = [dense EXCEPT !.pc = "called", !.op = op, !.ret = ret]
    /\ DenseOthersUnchanged

DenseCallEq == DenseCall("eq", [value |-> DenseEq(dense.a, dense.b)])

DenseCallIsZero == DenseCall("is_zero", [value |-> is_zero(dense.a)])

DenseCallAdd == DenseCall("add", DenseAdd(dense.a, dense.b))

DenseCallDivide == DenseCall("divide_with_q_and_r", divide_with_q_and_r(dense.a, dense.b))

\* interpolate(point_ys, point_xs) with dense.a as the y and dense.b as the x
DenseCallInterpolate ==
    DenseCall("interpolate", DenseInterpolate(dense.a.coefficients, dense.b.coefficients))

DenseCallAddAssign == DenseCall("add_assign", add_assign(dense.a, dense.b))

DenseCallSubAssign == DenseCall("sub_assign", sub_assign(dense.a, dense.b))

InitDense ==
    /\ ml = MlIdle
    /\ oracle = OracleIdle
    /\ sc = ScIdle
    /\ mcs = McsIdle
    /\ kzg = KzgIdle
    /\ gkr = GkrIdle
    /\ sgkr = SgkrIdle
    /\ collapse = CollapseIdle
    /\ circ = CircIdle
    /\ fs = FsIdle
    /\ merlin = MerlinIdle
    /\ \E a \in DenseVectors : \E b \in DenseVectors : dense = DenseStart(a, b)

NextDense ==
    \/ DenseCallEq
    \/ DenseCallIsZero
    \/ DenseCallAdd
    \/ DenseCallDivide
    \/ DenseCallInterpolate
    \/ DenseCallAddAssign
    \/ DenseCallSubAssign

SpecDense == InitDense /\ [][NextDense]_vars

\* the coefficient of x^i of a polynomial, zero beyond the end of its vector
Coef(poly, i) == IF i < Len(poly.coefficients) THEN poly.coefficients[i + 1] ELSE 0

\* the two vectors are the same up to trailing zeros
SamePolynomial(p, q) ==
    \A i \in 0..(Len(p.coefficients) + Len(q.coefficients)) : Coef(p, i) = Coef(q, i)

\* C18: two dense univariate polynomials whose coefficient vectors differ only
\* by trailing zero coefficients compare equal under ==, and every all-zero
\* coefficient vector equals, and is reported by is_zero as, the zero
\* polynomial.
C18_EqualityIgnoresTrailingZeros ==
    /\ (dense.op = "eq" /\ SamePolynomial(dense.a, dense.b)) => dense.ret.value
    /\ (dense.op = "is_zero" /\ SamePolynomial(dense.a, DenseZero)) => dense.ret.value

\* what == is: true exactly on equal vectors
DenseEqIsVectorEquality ==
    dense.op = "eq" => (dense.ret.value <=> dense.a.coefficients = dense.b.coefficients)

\* C19: for all dense univariate polynomials a and b, the zero polynomial
\* with an empty coefficient vector and constant polynomials included, a + b
\* has for every index i the coefficient a_i + b_i, reading coefficients
\* beyond the end of a vector as zero.
C19_AddIsCoefficientwise ==
    dense.op = "add" =>
        \A i \in 0..MaxDenseLen :
            Coef(dense.ret, i) = FAdd(Coef(dense.a, i), Coef(dense.b, i))

\* what + gives when the left operand is not the empty vector
DenseAddOfNonEmptyLeft ==
    (dense.op = "add" /\ dense.a.coefficients # <<>>) =>
        \A i \in 0..MaxDenseLen :
            Coef(dense.ret, i) = FAdd(Coef(dense.a, i), Coef(dense.b, i))

\* the coefficient of x^i of q*d + r
RECURSIVE ProductCoef(_, _, _, _)
ProductCoef(q, d, i, j) ==
    IF j > i THEN 0
    ELSE FAdd(FMul(Coef(q, j), Coef(d, i - j)), ProductCoef(q, d, i, j + 1))

\* the degree of a polynomial that is not zero, trailing zeros ignored
TrueDegree(poly) == Len(remove_trailing_and_redundant_zeros(poly.coefficients)) - 1

DivisionAsStated(p, d, ret) ==
    /\ ~IsPanic(ret)
    /\ \A i \in 0..(2 * MaxDenseLen) :
           Coef(p, i) = FAdd(ProductCoef(ret.quotient, d, i, 0), Coef(ret.remainder, i))
    /\ \/ SamePolynomial(ret.remainder, DenseZero)
       \/ TrueDegree(ret.remainder) < TrueDegree(d)

\* C20: for every dividend p and every divisor d that is not the zero
\* polynomial, with coefficient vectors that may carry trailing zeros,
\* divide_with_q_and_r returns (q, r) with p = q*d + r and r zero or of
\* degree below the degree of d.
C20_DivisionWithRemainder ==
    (dense.op = "divide_with_q_and_r" /\ ~SamePolynomial(dense.b, DenseZero)) =>
        DivisionAsStated(dense.a, dense.b, dense.ret)

\* division by a divisor whose last stored coefficient is not zero
DivisionByStrippedDivisor ==
    (/\ dense.op = "divide_with_q_and_r"
     /\ dense.b.coefficients # <<>>
     /\ dense.b.coefficients[Len(dense.b.coefficients)] # 0) =>
        DivisionAsStated(dense.a, dense.b, dense.ret)

\* the entries of a vector are pairwise distinct
Distinct(xs) == \A i, j \in 1..Len(xs) : i # j => xs[i] # xs[j]

InterpolationAsStated(ys, xs, ret) ==
    /\ ~IsPanic(ret)
    /\ SamePolynomial(ret, DenseZero) \/ TrueDegree(ret) <= Len(xs) - 1
    /\ \A i \in 1..Len(xs) : DenseEvaluate(ret, xs[i]) = ys[i]

\* C21: given n >= 1 points with pairwise distinct x-coordinates,
\* interpolate returns a polynomial of degree at most n-1 whose evaluation
\* at every x_i is y_i.
C21_InterpolationThroughAllPoints ==
    (/\ dense.op = "interpolate"
     /\ Len(dense.b.coefficients) >= 1
     /\ Len(dense.a.coefficients) = Len(dense.b.coefficients)
     /\ Distinct(dense.b.coefficients)) =>
        InterpolationAsStated(dense.a.coefficients, dense.b.coefficients, dense.ret)

\* interpolation through two or more points
InterpolationOfTwoOrMore ==
    (/\ dense.op = "interpolate"
     /\ Len(dense.b.coefficients) >= 2
     /\ Len(dense.a.coefficients) = Len(dense.b.coefficients)
     /\ Distinct(dense.b.coefficients)) =>
        InterpolationAsStated(dense.a.coefficients, dense.b.coefficients, dense.ret)

\* C29: after a += b the polynomial a equals a + b, coefficient i equal to
\* a_i + b_i with missing coefficients read as zero, also when b has the
\* higher degree; and a -= b equals a - b.
C29_AddAssignIsAdd ==
    /\ dense.op = "add_assign" =>
           /\ SamePolynomial(dense.ret, DenseAdd(dense.a, dense.b))
           /\ \A i \in 0..(2 * MaxDenseLen) :
                  Coef(dense.ret, i) = FAdd(Coef(dense.a, i), Coef(dense.b, i))
    /\ dense.op = "sub_assign" =>
           SamePolynomial(dense.ret, DenseSub(dense.a, dense.b))

\* a += b when the degree of b is not the higher one and a is not empty
AddAssignOfLowerDegree ==
    (/\ dense.op = "add_assign"
     /\ degree(dense.a) >= degree(dense.b)
     /\ dense.a.coefficients # <<>>) =>
        \A i \in 0..(2 * MaxDenseLen) :
            Coef(dense.ret, i) = FAdd(Coef(dense.a, i), Coef(dense.b, i))

\* layer i (counted from 0) has 2^i gates over 2^(i+1) values, every gate
\* input in range
CircCanonicalShape ==
    /\ Len(circ.input) = Pow2(Len(circ.circuit))
    /\ \A i \in 0..(Len(circ.circuit) - 1) :
         /\ Len(circ.circuit[i + 1]) = Pow2(i)
         /\ \A j \in 1..Pow2(i) : \A side \in 1..2 :
              circ.circuit[i + 1][j].inputs[side] < Pow2(i + 1)

\* sum over all (b, c) of add[a,b,c]*(W[b] + W[c]) + mul[a,b,c]*W[b]*W[c],
\* the tables indexed by (a, b, c) with b and c written on width bits
WiringSum(tables, below, a, width) ==
    SumSeq(Collect([b \in 1..Pow2(width) |->
        SumSeq(Collect([c \in 1..Pow2(width) |->
            FAdd(FMul(tables.add_mle.evaluations[
                          a * Pow2(2 * width) + (b - 1) * Pow2(width) + c],
                      FAdd(below[b], below[c])),
                 FMul(tables.mult_mle.evaluations[
                          a * Pow2(2 * width) + (b - 1) * Pow2(width) + c],
                      FMul(below[b], below[c])))]))]))

\* entry a of layer i, zero for the entry added by padding layer 0
PaddedEntry(layer, a) == IF a < Len(layer) THEN layer[a + 1] ELSE 0

\* C27: for every circuit of the canonical shape, every input and every layer
\* i, the value vectors W of Circuit::evaluation and the tables of
\* add_mult_mle(i) satisfy, for each gate index a of layer i,
\*   W_i[a] = sum over (b, c) of add_i[a,b,c]*(W_{i+1}[b] + W_{i+1}[c])
\*                               + mul_i[a,b,c]*W_{i+1}[b]*W_{i+1}[c],
\* and for layer 0 the same holds for the zero entry added by padding the
\* single output to two.
C27_LayerValuesAreWiringSums ==
    (circ.op = "evaluation_and_tables" /\ CircCanonicalShape) =>
        /\ ~IsPanic(circ.ret.evaluation)
        /\ \A i \in 0..(Len(circ.circuit) - 1) :
             /\ ~IsPanic(circ.ret.tables[i + 1])
             /\ \A a \in 0..(Pow2(IF i = 0 THEN 1 ELSE i) - 1) :
                  PaddedEntry(circ.ret.evaluation.layers[i + 1], a) =
                    WiringSum(circ.ret.tables[i + 1], circ.ret.evaluation.layers[i + 2],
                              a, i + 1)

\* a two-layer circuit with gates of both kinds and crossed wiring on an
\* input of four different values
C27_Witness ==
    /\ circ.op = "evaluation_and_tables"
    /\ circ.circuit = <<<<Gate("Mul", 1, 0)>>, <<Gate("Add", 3, 0), Gate("Mul", 2, 1)>>>>
    /\ circ.input = FreeTwoLayerInput
    /\ circ.ret.evaluation.layers[1] = <<FMul(6, 5)>>
(***************************************************************************)
(* MerlinTranscript (transcripts/merlin/src/lib.rs).  The hasher is held   *)
(* as the bytes it absorbed since it was last reset.                       *)
(***************************************************************************)
\* b"Merlin Transcript"
MerlinDomainTag ==
    <<77, 101, 114, 108, 105, 110, 32, 84, 114, 97, 110, 115, 99, 114, 105, 112, 116>>

\* usize::to_le_bytes
RECURSIVE LeBytes(_, _)
LeBytes(n, width) ==
    IF width = 0 THEN <<>> ELSE <<n % 256>> \o LeBytes(n \div 256, width - 1)

UsizeToLeBytes(n) == LeBytes(n, 8)

MerlinNew(label) == [hasher |-> MerlinDomainTag \o label, buffer |-> <<>>]

append_message(self, label, message) ==
    [self EXCEPT !.hasher = ((@ \o label) \o UsizeToLeBytes(Len(message))) \o message]

\* challenge(): finalize_reset gives the digest and leaves the hasher empty,
\* then the label is absorbed; hashed is the state the digest was taken of
MerlinChallenge(env, self, label) ==
    LET d == Digest(env, self.hasher)
    IN  [value |-> d.value, self |-> [self EXCEPT !.hasher = label], env |-> d.env,
         hashed |-> self.hasher]

RECURSIVE challenge_n(_, _, _, _)
challenge_n(env, self, label, n) ==
    IF n = 0 THEN [values |-> <<>>, self |-> self, env |-> env, hashed |-> <<>>]
    ELSE LET c == MerlinChallenge(env, self, label)
             rest == challenge_n(c.env, c.self, label, n - 1)
         IN  [values |-> <<c.value>> \o rest.values, self |-> rest.self, env |-> rest.env,
              hashed |-> <<c.hashed>> \o rest.hashed]

(***************************************************************************)
(* A Merlin session: two transcripts are created with new(label) and       *)
(* append_message, challenge and challenge_n are called on each, in any    *)
(* interleaving.                                                           *)
(*   merlin[i].self      transcript i                                      *)
(*   merlin[i].label     the protocol label it was created with            *)
(*   merlin[i].calls     the calls made on it                              *)
(*   merlin[i].outs      the challenges it returned, in order              *)
(*   merlin[i].inputs    for each challenge, the hasher state it is the    *)
(*                       digest of                                         *)
(*   merlin[i].before    for each challenge, the number of calls made      *)
(*                       before the call that returned it                  *)
(***************************************************************************)
MerlinLabels == SeqsOfLen(Vals, 1)

MerlinMessages == SeqsOfLen(Vals, MaxMerlinBytes)

MerlinStart(label) ==
    [self |-> MerlinNew(label), label |-> label, calls |-> <<>>, outs |-> <<>>,
     inputs |-> <<>>, before |-> <<>>]

MerlinOthersUnchanged ==
    UNCHANGED <<ml, sc, mcs, kzg, gkr, sgkr, collapse, circ, fs, dense>>

MerlinCallAppendMessage ==
    /\ \E i \in 1..2 : \E label \in MerlinLabels : \E message \in MerlinMessages :
         /\ Len(merlin[i].calls) < MaxMerlinCalls
         /\ merlin' = [merlin EXCEPT ![i] =
                         [@ EXCEPT !.self = append_message(@, label, message),
                                   !.calls = Append(@, <<"append_message", label, message>>)]]
    /\ UNCHANGED oracle
    /\ MerlinOthersUnchanged

MerlinCallChallenge ==
    /\ \E i \in 1..2 : \E label \in MerlinLabels :
         /\ Len(merlin[i].calls) < MaxMerlinCalls
         /\ \E run \in Outcomes(LAMBDA env : MerlinChallenge(env, merlin[i].self, label),
                                 oracle, <<>>, 1) :
              /\ oracle' = run.env.oracle
              /\ merlin' = [merlin EXCEPT ![i] =
                              [@ EXCEPT !.self = run.self,
                                        !.calls = Append(@, <<"challenge", label>>),
                                        !.outs = Append(@, run.value),
                                        !.inputs = Append(@, run.hashed),
                                        !.before = Append(@, Len(merlin[i].calls))]]
    /\ MerlinOthersUnchanged

MerlinCallChallengeN ==
    /\ \E i \in 1..2 : \E label \in MerlinLabels : \E n \in 1..MaxMerlinN :
         /\ Len(merlin[i].calls) < MaxMerlinCalls
         /\ \E run \in Outcomes(LAMBDA env : challenge_n(env, merlin[i].self, label, n),
                                 oracle, <<>>, n) :
              /\ oracle' = run.env.oracle
              /\ merlin' = [merlin EXCEPT ![i] =
                              [@ EXCEPT !.self = run.self,
                                        !.calls = Append(@, <<"challenge_n", label, n>>),
                                        !.outs = @ \o run.values,
                                        !.inputs = @ \o run.hashed,
                                        !.before = @ \o [k \in 1..n |-> Len(merlin[i].calls)]]]
    /\ MerlinOthersUnchanged

InitMerlin ==
    /\ ml = MlIdle
    /\ oracle = OracleIdle
    /\ sc = ScIdle
    /\ mcs = McsIdle
    /\ kzg = KzgIdle
    /\ gkr = GkrIdle
    /\ sgkr = SgkrIdle
    /\ collapse = CollapseIdle
    /\ circ = CircIdle
    /\ fs = FsIdle
    /\ dense = DenseIdle
    /\ \E a \in MerlinLabels : \E b \in MerlinLabels :
         merlin = <<MerlinStart(a), MerlinStart(b)>>

NextMerlin ==
    \/ MerlinCallAppendMessage
    \/ MerlinCallChallenge
    \/ MerlinCallChallengeN

SpecMerlin == InitMerlin /\ [][NextMerlin]_vars

\* the append_message calls among the first n calls of transcript i
RECURSIVE MerlinAppended(_, _)
MerlinAppended(i, n) ==
    IF n = 0 THEN <<>>
    ELSE IF merlin[i].calls[n][1] = "append_message"
      THEN Append(MerlinAppended(i, n - 1), merlin[i].calls[n])
    ELSE MerlinAppended(i, n - 1)

\* what came before the k-th challenge of transcript i: the protocol label
\* and the messages appended, with their labels
MerlinHistory(i, k) == <<merlin[i].label, MerlinAppended(i, merlin[i].before[k])>>

\* C30: every challenge returned by challenge or challenge_n depends on the
\* protocol label and on all messages appended before it, including those
\* appended before earlier challenges: challenges of two transcripts that
\* differ in the protocol label or in a message appended before are digests
\* of different hasher states, also after a first challenge has been drawn
\* and for the second and later elements of challenge_n.
C30_ChallengesDependOnAllEarlierMessages ==
    \A k1 \in 1..Len(merlin[1].outs) : \A k2 \in 1..Len(merlin[2].outs) :
        MerlinHistory(1, k1) # MerlinHistory(2, k2)
            => merlin[1].inputs[k1] # merlin[2].inputs[k2]

\* the part that holds: the first challenge drawn from a transcript
MerlinFirstChallengeDependsOnHistory ==
    (merlin[1].outs # <<>> /\ merlin[2].outs # <<>>
       /\ MerlinHistory(1, 1) # MerlinHistory(2, 1))
    => merlin[1].inputs[1] # merlin[2].inputs[1]

\* the bytes the calls from number from to number to of transcript i leave
\* in a hasher that was reset before them: the label of a challenge that was
\* just drawn, and label, length and bytes of an appended message
RECURSIVE MerlinAbsorbed(_, _, _)
MerlinAbsorbed(i, from, to) ==
    IF from > to THEN <<>>
    ELSE LET call == merlin[i].calls[to]
         IN  IF call[1] = "append_message"
               THEN ((MerlinAbsorbed(i, from, to - 1) \o call[2])
                        \o UsizeToLeBytes(Len(call[3]))) \o call[3]
             ELSE call[2]

\* what the later challenges are digests of: the label of the challenge
\* before and what was appended since, whatever came before that challenge
MerlinLaterChallengeForgetsHistory ==
    \A i \in 1..2 : \A k \in 2..Len(merlin[i].outs) :
        /\ merlin[i].inputs[k] \in DOMAIN oracle
        /\ merlin[i].outs[k] = oracle[merlin[i].inputs[k]]
        /\ merlin[i].inputs[k] =
               MerlinAbsorbed(i, merlin[i].before[k - 1] + 1, merlin[i].before[k]
                                   + (IF merlin[i].before[k] = merlin[i].before[k - 1]
                                        THEN 1 ELSE 0))
====
